---- MODULE Spec2Model ----
(***************************************************************************)
(* A model of code_nim, the Bitbucket pull-request reviewer: the line map  *)
(* built from the hunks of a unified diff, the anchor search that repairs  *)
(* the positions an AI reports, the gate that posts inline comments, the   *)
(* scan of the comments already on a pull request, and the isRunning flag  *)
(* that keeps review runs from overlapping.                                *)
(*                                                                         *)
(* Go strings are TLA+ strings; bytes are read with SubSeq.  Go indices    *)
(* are 0-based and kept 0-based wherever the code computes with them.      *)
(***************************************************************************)
EXTENDS Integers, Sequences, FiniteSets, TLC

(***************************************************************************)
(* Bounds of the model.                                                    *)
(***************************************************************************)
\* most hunks in one BuildDiffSnippetAndLineMap input
MaxHunks == 2
\* most diff lines, over all hunks, in one BuildDiffSnippetAndLineMap input
MaxLines == 3
\* most diff lines in one NearestMatchingLineIndex input
MaxNearLines == 4

(***************************************************************************)
(* The functions of package strings and strconv that the code calls.       *)
(***************************************************************************)
Ch(s, i) == SubSeq(s, i, i)

\* s[from:] with a 0-based from
Tail0(s, from) == SubSeq(s, from + 1, Len(s))

\* s[:to] with a 0-based, exclusive to
Head0(s, to) == SubSeq(s, 1, to)

HasPrefix(s, p) == Len(s) >= Len(p) /\ SubSeq(s, 1, Len(p)) = p

\* strings.Index: the 0-based index of the first sub in s, -1 if there is none
Index(s, sub) ==
    LET at == {i \in 0..(Len(s) - Len(sub)) : SubSeq(s, i + 1, i + Len(sub)) = sub}
    IN  IF at = {} THEN -1 ELSE CHOOSE i \in at : \A j \in at : i <= j

Contains(s, sub) == Index(s, sub) >= 0

RECURSIVE IndexAnyFrom(_, _, _)
IndexAnyFrom(s, chars, i) ==
    IF i >= Len(s) THEN -1
    ELSE IF Contains(chars, Ch(s, i + 1)) THEN i
    ELSE IndexAnyFrom(s, chars, i + 1)

\* strings.IndexAny: the 0-based index of the first byte of s that is in chars
IndexAny(s, chars) == IndexAnyFrom(s, chars, 0)

IsSpace(c) == c \in {" ", "\t", "\n", "\r"}

RECURSIVE TrimLeftSpace(_)
TrimLeftSpace(s) ==
    IF Len(s) > 0 /\ IsSpace(Ch(s, 1)) THEN TrimLeftSpace(Tail0(s, 1)) ELSE s

RECURSIVE TrimRightSpace(_)
TrimRightSpace(s) ==
    IF Len(s) > 0 /\ IsSpace(Ch(s, Len(s)))
    THEN TrimRightSpace(Head0(s, Len(s) - 1)) ELSE s

TrimSpace(s) == TrimRightSpace(TrimLeftSpace(s))

\* len(strings.Split(s, sep)) > 1
SplitHasSecond(s, sep) == Index(s, sep) >= 0

\* strings.Split(s, sep)[1]: what lies between the first sep and the next one
SplitSecond(s, sep) ==
    LET rest == Tail0(s, Index(s, sep) + Len(sep))
        nxt  == Index(rest, sep)
    IN  IF nxt < 0 THEN rest ELSE Head0(rest, nxt)

Digits == {"0", "1", "2", "3", "4", "5", "6", "7", "8", "9"}

DigitVal(c) ==
    CASE c = "0" -> 0 [] c = "1" -> 1 [] c = "2" -> 2 [] c = "3" -> 3
      [] c = "4" -> 4 [] c = "5" -> 5 [] c = "6" -> 6 [] c = "7" -> 7
      [] c = "8" -> 8 [] c = "9" -> 9

RECURSIVE DigitsValue(_, _)
DigitsValue(s, acc) ==
    IF Len(s) = 0 THEN acc
    ELSE DigitsValue(Tail0(s, 1), 10 * acc + DigitVal(Ch(s, 1)))

AllDigits(s) == Len(s) > 0 /\ \A i \in 1..Len(s) : Ch(s, i) \in Digits

\* strconv.Atoi: an optional sign and decimal digits; err is TRUE otherwise
Atoi(s) ==
    LET signed == Len(s) > 0 /\ Ch(s, 1) \in {"+", "-"}
        body   == IF signed THEN Tail0(s, 1) ELSE s
    IN  IF ~AllDigits(body) THEN [err |-> TRUE, v |-> 0]
        ELSE [err |-> FALSE,
              v   |-> IF signed /\ Ch(s, 1) = "-"
                      THEN 0 - DigitsValue(body, 0) ELSE DigitsValue(body, 0)]

(***************************************************************************)
(* helper.BuildDiffSnippetAndLineMap                                       *)
(* A hunk is [header, lines], as ParseDiff builds it; a DiffLineMapping is *)
(* [FromLine, ToLine].                                                     *)
(***************************************************************************)
ParseSrcStartDefaultsToOne(header) ==
    IF ~SplitHasSecond(header, "-") THEN 1
    ELSE LET left == SplitSecond(header, "-")
             idx  == IndexAny(left, " ,+@")
             cut  == IF idx >= 0 THEN Head0(left, idx) ELSE left
             n    == Atoi(TrimSpace(cut))
         IN  IF n.err THEN 1 ELSE n.v

\* the source start a of "@@ -a,b +c,d @@", 0 when it does not parse
ParseSrcStart(header) ==
    IF ~SplitHasSecond(header, "-") THEN 0
    ELSE LET left == SplitSecond(header, "-")
             idx  == IndexAny(left, " ,+@")
             cut  == IF idx >= 0 THEN Head0(left, idx) ELSE left
             n    == Atoi(TrimSpace(cut))
         IN  IF n.err THEN 0 ELSE n.v

\* the destination start c of "@@ -a,b +c,d @@", 0 when it does not parse
ParseDestStart(header) ==
    IF ~SplitHasSecond(header, "+") THEN 0
    ELSE LET right == SplitSecond(header, "+")
             idx   == IndexAny(right, " @")
             cut1  == IF idx >= 0 THEN Head0(right, idx) ELSE right
             comma == Index(cut1, ",")
             cut2  == IF comma >= 0 THEN Head0(cut1, comma) ELSE cut1
             n     == Atoi(TrimSpace(cut2))
         IN  IF n.err THEN 0 ELSE n.v

\* a deleted line that also advances the destination counter
MapLineDeletedAdvancesDest(ln, srcLine, destLine) ==
    IF HasPrefix(ln, "+")
    THEN [m |-> [FromLine |-> -1, ToLine |-> destLine],
          src |-> srcLine, dst |-> destLine + 1]
    ELSE IF HasPrefix(ln, "-")
    THEN [m |-> [FromLine |-> srcLine, ToLine |-> -1],
          src |-> srcLine + 1, dst |-> destLine + 1]
    ELSE [m |-> [FromLine |-> srcLine, ToLine |-> destLine],
          src |-> srcLine + 1, dst |-> destLine + 1]

\* a deleted line mapped like a context line (the -1 sentinel forgotten)
MapLineDeletedKeepsDest(ln, srcLine, destLine) ==
    IF HasPrefix(ln, "+")
    THEN [m |-> [FromLine |-> -1, ToLine |-> destLine],
          src |-> srcLine, dst |-> destLine + 1]
    ELSE IF HasPrefix(ln, "-")
    THEN [m |-> [FromLine |-> srcLine, ToLine |-> destLine],
          src |-> srcLine + 1, dst |-> destLine]
    ELSE [m |-> [FromLine |-> srcLine, ToLine |-> destLine],
          src |-> srcLine + 1, dst |-> destLine + 1]

\* one pass of the inner loop: the mapping of ln and the counters after it
MapLine(ln, srcLine, destLine) ==
    IF HasPrefix(ln, "+")
    THEN [m |-> [FromLine |-> -1, ToLine |-> destLine],
          src |-> srcLine, dst |-> destLine + 1]
    ELSE IF HasPrefix(ln, "-")
    THEN [m |-> [FromLine |-> srcLine, ToLine |-> -1],
          src |-> srcLine + 1, dst |-> destLine]
    ELSE [m |-> [FromLine |-> srcLine, ToLine |-> destLine],
          src |-> srcLine + 1, dst |-> destLine + 1]

\* the inner loop over the lines of one hunk, from line i on
RECURSIVE MapHunkLines(_, _, _, _, _)
MapHunkLines(lines, i, srcLine, destLine, acc) ==
    IF i > Len(lines) THEN acc
    ELSE LET r == MapLine(lines[i], srcLine, destLine)
         IN  MapHunkLines(lines, i + 1, r.src, r.dst, Append(acc, r.m))

\* the outer loop over the hunks, from hunk h on
RECURSIVE MapHunks(_, _, _, _)
MapHunks(hs, h, snip, lmap) ==
    IF h > Len(hs) THEN [snippet |-> snip, lineMap |-> lmap]
    ELSE MapHunks(hs, h + 1, snip \o hs[h].lines,
                  MapHunkLines(hs[h].lines, 1, ParseSrcStart(hs[h].header),
                               ParseDestStart(hs[h].header), lmap))

BuildDiffSnippetAndLineMap(hs) == MapHunks(hs, 1, <<>>, <<>>)

(***************************************************************************)
(* helper.NearestMatchingLineIndex, and the step of its caller that uses   *)
(* it.  diffLines[i] of the code is diffLines[i + 1] here.                  *)
(***************************************************************************)
\* the closure strip: trim, drop one leading '+' or '-', trim again
Strip(s) ==
    LET t == TrimSpace(s)
    IN  IF Len(t) > 0 /\ Ch(t, 1) \in {"+", "-"} THEN TrimSpace(Tail0(t, 1)) ELSE t

NormAnchor(anchor) == Strip(TrimSpace(anchor))

InBounds(diffLines, i) == i >= 0 /\ i < Len(diffLines)

Match(diffLines, normAnchor, i) == Contains(Strip(diffLines[i + 1]), normAnchor)

ClampHint(diffLines, hintIdx) ==
    IF hintIdx < 0 THEN 0
    ELSE IF hintIdx >= Len(diffLines) THEN Len(diffLines) - 1
    ELSE hintIdx

\* the radius loop with the right neighbour tried before the left one
RECURSIVE SearchRadiusRightFirst(_, _, _, _)
SearchRadiusRightFirst(diffLines, normAnchor, hint, radius) ==
    IF radius >= Len(diffLines) THEN -1
    ELSE IF InBounds(diffLines, hint + radius) /\ Match(diffLines, normAnchor, hint + radius)
    THEN hint + radius
    ELSE IF InBounds(diffLines, hint - radius) /\ Match(diffLines, normAnchor, hint - radius)
    THEN hint - radius
    ELSE SearchRadiusRightFirst(diffLines, normAnchor, hint, radius + 1)

\* the radius loop: hint - radius, then hint + radius, for radius 1, 2, ...
RECURSIVE SearchRadius(_, _, _, _)
SearchRadius(diffLines, normAnchor, hint, radius) ==
    IF radius >= Len(diffLines) THEN -1
    ELSE IF InBounds(diffLines, hint - radius) /\ Match(diffLines, normAnchor, hint - radius)
    THEN hint - radius
    ELSE IF InBounds(diffLines, hint + radius) /\ Match(diffLines, normAnchor, hint + radius)
    THEN hint + radius
    ELSE SearchRadius(diffLines, normAnchor, hint, radius + 1)

NearestMatchingLineIndex(diffLines, anchor, hintIdx) ==
    IF Len(diffLines) = 0 \/ anchor = "" THEN -1
    ELSE LET normAnchor == NormAnchor(anchor)
             hint       == ClampHint(diffLines, hintIdx)
         IN  IF InBounds(diffLines, hint) /\ Match(diffLines, normAnchor, hint)
             THEN hint
             ELSE SearchRadius(diffLines, normAnchor, hint, 1)

AnchorCorrectedPositionUnguarded(allLines, mapLen, anchor, position) ==
    IF anchor # ""
    THEN NearestMatchingLineIndex(allLines, anchor, position - 1) + 1
    ELSE position

\* ensureInlineReviewComments, "Use anchor text to correct the index if
\* present": the position of a comment after that step
AnchorCorrectedPosition(allLines, mapLen, anchor, position) ==
    IF anchor # ""
    THEN LET idx == NearestMatchingLineIndex(allLines, anchor, position - 1)
         IN  IF idx >= 0 /\ idx < mapLen THEN idx + 1 ELSE position
    ELSE position

(***************************************************************************)
(* bitbucket_impl.ParseDiff                                                *)
(* A file is [path, hunks].  currentHunk of the code is a map, so it stays *)
(* the last hunk of the file that created it even after the next           *)
(* "diff --git" line has started another file: owner says which file that  *)
(* is (0: no hunk yet, -1: the current file, k: files[k]).                 *)
(***************************************************************************)
\* strings.Split(s, "\n")
RECURSIVE SplitLines(_)
SplitLines(s) ==
    LET i == Index(s, "\n")
    IN  IF i < 0 THEN <<s>>
        ELSE <<Head0(s, i)>> \o SplitLines(Tail0(s, i + 1))

TrimPrefix(s, p) == IF HasPrefix(s, p) THEN Tail0(s, Len(p)) ELSE s

AppendToLastHunkInFront(f, line) ==
    [f EXCEPT !.hunks[Len(f.hunks)].lines = <<line>> \o @]

\* append line to the lines of the last hunk of file f
AppendToLastHunk(f, line) ==
    [f EXCEPT !.hunks[Len(f.hunks)].lines = Append(@, line)]

\* one pass of the loop of ParseDiff over the lines
ParseLine(st, line) ==
    IF HasPrefix(line, "diff --git")
    THEN [files  |-> IF st.hasCur THEN Append(st.files, st.cur) ELSE st.files,
          cur    |-> [path |-> "", hunks |-> <<>>],
          hasCur |-> TRUE,
          owner  |-> IF st.owner = -1 THEN Len(st.files) + 1 ELSE st.owner]
    ELSE IF HasPrefix(line, "+++ b/")
    THEN IF st.hasCur
         THEN [st EXCEPT !.cur.path = TrimPrefix(line, "+++ b/")]
         ELSE st
    ELSE IF HasPrefix(line, "@@")
    THEN IF st.hasCur
         THEN [st EXCEPT !.cur.hunks = Append(@, [header |-> line, lines |-> <<>>]),
                         !.owner = -1]
         ELSE st
    ELSE IF st.owner = -1
    THEN [st EXCEPT !.cur = AppendToLastHunk(@, line)]
    ELSE IF st.owner > 0
    THEN [st EXCEPT !.files[st.owner] = AppendToLastHunk(@, line)]
    ELSE st

RECURSIVE ParseLines(_, _, _)
ParseLines(lines, i, st) ==
    IF i > Len(lines) THEN st ELSE ParseLines(lines, i + 1, ParseLine(st, lines[i]))

ParseDiffCurrentFileFirst(diff) ==
    LET st == ParseLines(SplitLines(diff), 1,
                         [files |-> <<>>, cur |-> [path |-> "", hunks |-> <<>>],
                          hasCur |-> FALSE, owner |-> 0])
    IN  IF st.hasCur THEN <<st.cur>> \o st.files ELSE st.files

ParseDiff(diff) ==
    LET st == ParseLines(SplitLines(diff), 1,
                         [files |-> <<>>, cur |-> [path |-> "", hunks |-> <<>>],
                          hasCur |-> FALSE, owner |-> 0])
    IN  IF st.hasCur THEN Append(st.files, st.cur) ELSE st.files

(***************************************************************************)
(* helper.LooksLikeCommand and helper.FormatReviewBody                     *)
(***************************************************************************)
commandIndicators ==
    <<"$", "#!/bin/", "sudo ", "rm ", "ls ", "cd ", "echo ", "cat ", "touch ",
      "mkdir ", "curl ", "wget ", "python ", "go run", "npm ", "yarn ", "git ",
      "exit", "shutdown", "reboot">>

LooksLikeCommandWholeBody(body) ==
    \E k \in 1..Len(commandIndicators) : body = commandIndicators[k]

LooksLikeCommand(body) ==
    \E k \in 1..Len(commandIndicators) : HasPrefix(body, commandIndicators[k])

\* strings.ReplaceAll for a non-empty old
RECURSIVE ReplaceAll(_, _, _)
ReplaceAll(s, old, new) ==
    LET i == Index(s, old)
    IN  IF i < 0 THEN s
        ELSE Head0(s, i) \o new \o ReplaceAll(Tail0(s, i + Len(old)), old, new)

RECURSIVE CollapseBlankLines(_)
CollapseBlankLines(s) ==
    IF Contains(s, "\n\n\n") THEN CollapseBlankLines(ReplaceAll(s, "\n\n\n", "\n\n")) ELSE s

RECURSIVE TrimLeftNewlines(_)
TrimLeftNewlines(s) ==
    IF Len(s) > 0 /\ Ch(s, 1) = "\n" THEN TrimLeftNewlines(Tail0(s, 1)) ELSE s

reviewHeadings ==
    <<"Why:", "How (step-by-step):", "Suggested change (Before/After):",
      "Prompt for AI Agents (optional):">>

RECURSIVE BreakBeforeHeadings(_, _)
BreakBeforeHeadings(s, k) ==
    IF k > Len(reviewHeadings) THEN s
    ELSE LET heading == reviewHeadings[k]
             proper  == "\n\n" \o heading
         IN  BreakBeforeHeadings(
                 ReplaceAll(ReplaceAll(s, " " \o heading, proper), heading, proper),
                 k + 1)

FormatReviewBody(body) ==
    IF body = "" THEN body
    ELSE LET f1 == TrimLeftNewlines(CollapseBlankLines(BreakBeforeHeadings(body, 1)))
             f2 == ReplaceAll(ReplaceAll(f1, ":\n  -", ":\n\n  -"), ":\n-", ":\n\n-")
             f3 == ReplaceAll(ReplaceAll(f2, "~~~go\n//", "~~~go\n\n//"),
                              "~~~\n~~~", "~~~\n\n~~~")
         IN  ReplaceAll(f3, "):\n~~~", "):\n\n~~~")

(***************************************************************************)
(* The inputs of the line-map specification.                               *)
(***************************************************************************)
\* hunk headers: two well formed, one whose starts do not parse, and one
\* whose destination start is a signed number
Headers ==
    {"@@ -10,3 +20,3 @@", "@@ -5 +5 @@", "@@ -x +y @@", "@@ -1 +-1 @@"}

\* a context, an added and a deleted line
HunkLineSet == {" a", "+b", "-c"}

RECURSIVE SeqSum(_, _)
SeqSum(s, n) == IF n = 0 THEN 0 ELSE SeqSum(s, n - 1) + s[n]

\* the lengths of k hunks that hold at most MaxLines lines together
HunkShapes(k) == {s \in [1..k -> 0..MaxLines] : SeqSum(s, k) <= MaxLines}

\* the hunks with headers hdrs whose lines are flat, cut as shape says
MakeHunks(hdrs, shape, flat) ==
    [h \in 1..Len(hdrs) |->
        [header |-> hdrs[h],
         lines  |-> SubSeq(flat, SeqSum(shape, h - 1) + 1, SeqSum(shape, h))]]

VARIABLES
    hunks,      \* BuildDiffSnippetAndLineMap: the argument
    snippet,    \* BuildDiffSnippetAndLineMap: the flattened lines returned
    lineMap,    \* BuildDiffSnippetAndLineMap: the mappings returned
    mapPc       \* "input" before the call, "done" after it

mapVars == <<hunks, snippet, lineMap, mapPc>>

VARIABLES
    diffLines,  \* NearestMatchingLineIndex: the flattened lines searched
    anchor,     \* the anchor text of the comment
    reported,   \* the 1-based position the comment reports; the hint is reported - 1
    nearIdx,    \* the index NearestMatchingLineIndex returned
    nearPos,    \* the position of the comment after the caller's anchor step
    nearPc      \* "input" before the call, "done" after it

nearVars == <<diffLines, anchor, reported, nearIdx, nearPos, nearPc>>

\* ensureInlineReviewComments: its arguments, its locals and the calls it
\* has made to Bitbucket.PushPullRequestInlineComment
VARIABLES
    cfgMaxInline,            \* auto.MaxInlineComments
    cfgMaxTotal,             \* auto.MaxTotalComments
    totalCommentCount,
    skipInline,
    hasInlineAlready,
    diff,
    existingInlineComments,  \* the keys the map holds
    existingAtEntry,         \* the keys the map held when the call began
    parsed,
    remaining,
    fileIdx,                 \* index in parsed of the file of the outer loop
    allLines,
    fileLineMap,
    aiCount,                 \* comments the AI has returned so far
    aiLen,                   \* len(comments) of the AI response
    comments,                \* the comments the first loop has gone through
    postIdx,                 \* index in comments of the second loop
    postedCount,
    calls,                   \* PushPullRequestInlineComment calls, in order
    diag,                    \* the per-file counter or flag set last in the
                             \* current iteration of the loop over files
    aiRaws,                  \* history: the comments as the AI returned them,
                             \* each with its file and its index in the response
    inPc

inlineVars ==
    <<cfgMaxInline, cfgMaxTotal, totalCommentCount, skipInline, hasInlineAlready,
      diff, existingInlineComments, existingAtEntry, parsed, remaining, fileIdx,
      allLines, fileLineMap, aiCount, aiLen, comments, postIdx, postedCount, calls,
      diag, aiRaws, inPc>>

\* AutoReviewPRHandler and the invocations of reviewTask, one per job of the
\* scheduler
VARIABLES
    mutex,        \* ar.mutex: 0 when unlocked, else the job that locked it
    isRunning,    \* ar.isRunning
    taskPc,       \* where each job's invocation of reviewTask stands
    taskOps,      \* Bitbucket and AI operations the invocation has called
    taskRuns,     \* invocations the scheduler has started for each job
    taskOutcome   \* how the job's last invocation returned

taskVars == <<mutex, isRunning, taskPc, taskOps, taskRuns, taskOutcome>>

\* the comments of one pull request and what reviewTask derives from them
VARIABLES
    prEvents,                \* what was posted on the pull request, in order
    prComments,              \* the comments Bitbucket returns for it
    latestCommitHash,
    scanIdx,                 \* comments gone through so far
    hasSummary,
    scanKeys,                \* reviewTask's existingInlineComments
    lastReviewedCommitHash,
    pauseRequested,
    summaryCalls,            \* bodies handed to PushPullRequestComment
    inlineCalled,            \* ensureInlineReviewComments has been called
    prPc

scanVars ==
    <<prEvents, prComments, latestCommitHash, scanIdx, hasSummary, scanKeys,
      lastReviewedCommitHash, pauseRequested, summaryCalls, inlineCalled, prPc>>

\* reviewTask's loop over the open pull requests, run after run
VARIABLES
    allPR,                    \* the open pull requests with their comments
    reviewRun,                \* invocations of reviewTask so far
    prIdx,                    \* the pull request the loop is at
    prFetched,                \* "comments", as FetchPullRequestComments gave them
    skipInlineByDisplayName,
    summaryFound,             \* reviewTask's hasSummary
    hasInlineReview,
    botInlineKeys,            \* reviewTask's existingInlineComments
    reviewLog,                \* the calls of this run, the accepted posts of all runs
    reviewPc

reviewVars ==
    <<allPR, reviewRun, prIdx, prFetched, skipInlineByDisplayName, summaryFound,
      hasInlineReview, botInlineKeys, reviewLog, reviewPc>>

vars == <<mapVars, nearVars, inlineVars, taskVars, scanVars, reviewVars>>

MaxJobs == 2   \* jobs of the scheduler (entries of cfg.AutoReviewPRs)
Jobs == 1..MaxJobs

TaskIdle ==
    /\ mutex = 0
    /\ isRunning = FALSE
    /\ taskPc = [j \in Jobs |-> "idle"]
    /\ taskOps = [j \in Jobs |-> 0]
    /\ taskRuns = [j \in Jobs |-> 0]
    /\ taskOutcome = [j \in Jobs |-> "none"]

\* the locals of reviewTask's scan of the comments before its first iteration
ScanLocalsInit ==
    /\ scanIdx = 0
    /\ hasSummary = FALSE
    /\ scanKeys = {}
    /\ lastReviewedCommitHash = ""
    /\ pauseRequested = FALSE
    /\ summaryCalls = <<>>
    /\ inlineCalled = FALSE

\* the locals of an iteration of reviewTask's loop over the pull requests
ReviewLocalsInit ==
    /\ prFetched = <<>>
    /\ skipInlineByDisplayName = FALSE
    /\ summaryFound = FALSE
    /\ hasInlineReview = FALSE
    /\ botInlineKeys = {}

ReviewIdle ==
    /\ allPR = <<>>
    /\ reviewRun = 0
    /\ prIdx = 0
    /\ ReviewLocalsInit
    /\ reviewLog = <<>>
    /\ reviewPc = "idle"

ScanIdle ==
    /\ prEvents = <<>>
    /\ prComments = <<>>
    /\ latestCommitHash = ""
    /\ ScanLocalsInit
    /\ prPc = "idle"

\* the locals of ensureInlineReviewComments before its first statement
InlineLocalsInit ==
    /\ parsed = <<>>
    /\ remaining = 0
    /\ fileIdx = 0
    /\ allLines = <<>>
    /\ fileLineMap = <<>>
    /\ aiCount = 0
    /\ aiLen = 0
    /\ comments = <<>>
    /\ postIdx = 0
    /\ postedCount = 0
    /\ calls = <<>>
    /\ diag = ""

InlineIdle ==
    /\ cfgMaxInline = 0
    /\ cfgMaxTotal = 0
    /\ totalCommentCount = 0
    /\ skipInline = FALSE
    /\ hasInlineAlready = FALSE
    /\ diff = ""
    /\ existingInlineComments = {}
    /\ existingAtEntry = {}
    /\ InlineLocalsInit
    /\ aiRaws = <<>>
    /\ inPc = "idle"

NearIdle ==
    /\ diffLines = <<>>
    /\ anchor = ""
    /\ reported = 0
    /\ nearIdx = -1
    /\ nearPos = 0
    /\ nearPc = "idle"

MapIdle ==
    /\ hunks = <<>>
    /\ snippet = <<>>
    /\ lineMap = <<>>
    /\ mapPc = "idle"

InitMap ==
    /\ NearIdle
    /\ InlineIdle
    /\ TaskIdle
    /\ ScanIdle
    /\ ReviewIdle
    /\ \E k \in 0..MaxHunks : \E shape \in HunkShapes(k) :
       \E hdrs \in [1..k -> Headers] :
       \E flat \in [1..SeqSum(shape, k) -> HunkLineSet] :
          hunks = MakeHunks(hdrs, shape, flat)
    /\ snippet = <<>>
    /\ lineMap = <<>>
    /\ mapPc = "input"

CallBuildMap ==
    /\ mapPc = "input"
    /\ LET r == BuildDiffSnippetAndLineMap(hunks)
       IN  /\ snippet' = r.snippet
           /\ lineMap' = r.lineMap
    /\ mapPc' = "done"
    /\ UNCHANGED <<hunks, nearVars, inlineVars, taskVars, scanVars, reviewVars>>

NextMap == CallBuildMap

SpecMap == InitMap /\ [][NextMap]_vars

(***************************************************************************)
(* Claims about BuildDiffSnippetAndLineMap.                                *)
(***************************************************************************)
\* the starts of every header of the model, as the code parses them
SrcStartOf == [hd \in Headers |-> ParseSrcStart(hd)]
DestStartOf == [hd \in Headers |-> ParseDestStart(hd)]

RECURSIVE LinesBefore(_, _)
LinesBefore(hs, h) == IF h <= 1 THEN 0 ELSE LinesBefore(hs, h - 1) + Len(hs[h - 1].lines)

IsAdded(ln) == HasPrefix(ln, "+")
IsDeleted(ln) == HasPrefix(ln, "-")
IsContext(ln) == ~IsAdded(ln) /\ ~IsDeleted(ln)

\* C1: the mapping is index-aligned with the flattened lines (same length,
\* empty for no hunks), and line j of hunk h maps to the header's starts
\* advanced by the lines of that hunk before it: a '+' line to {-1, dst}, a
\* '-' line to {src, -1}, any other line to {src, dst}, where src counts the
\* earlier non-'+' lines and dst the earlier non-'-' lines of the same hunk.
\* Header -10,+20 with three context lines gives {10,20},{11,21},{12,22}.
C1_MapFollowsHunks ==
    mapPc = "done" =>
        /\ Len(lineMap) = Len(snippet)
        /\ Len(snippet) = LinesBefore(hunks, Len(hunks) + 1)
        /\ (hunks = <<>> => snippet = <<>> /\ lineMap = <<>>)
        /\ \A h \in 1..Len(hunks) :
           LET ls   == hunks[h].lines
               src0 == SrcStartOf[hunks[h].header]
               dst0 == DestStartOf[hunks[h].header]
           IN  \A j \in 1..Len(ls) :
              LET pos  == LinesBefore(hunks, h) + j
                  src  == src0 + Cardinality({k \in 1..(j - 1) : ~IsAdded(ls[k])})
                  dst  == dst0 + Cardinality({k \in 1..(j - 1) : ~IsDeleted(ls[k])})
              IN  /\ snippet[pos] = ls[j]
                  /\ lineMap[pos] =
                        IF IsAdded(ls[j]) THEN [FromLine |-> -1, ToLine |-> dst]
                        ELSE IF IsDeleted(ls[j]) THEN [FromLine |-> src, ToLine |-> -1]
                        ELSE [FromLine |-> src, ToLine |-> dst]
        /\ (hunks = <<[header |-> "@@ -10,3 +20,3 @@", lines |-> <<" a", " a", " a">>]>>
              => lineMap = <<[FromLine |-> 10, ToLine |-> 20],
                             [FromLine |-> 11, ToLine |-> 21],
                             [FromLine |-> 12, ToLine |-> 22]>>)
        /\ (hunks = <<[header |-> "@@ -5 +5 @@", lines |-> <<"-c", "+b">>]>>
              => lineMap = <<[FromLine |-> 5, ToLine |-> -1],
                             [FromLine |-> -1, ToLine |-> 5]>>)

\* a second hunk whose first line restarts at its own header after a first
\* hunk that moved both counters
C1_Witness ==
    /\ mapPc = "done"
    /\ hunks = <<[header |-> "@@ -5 +5 @@", lines |-> <<"-c", "+b">>],
                 [header |-> "@@ -10,3 +20,3 @@", lines |-> <<" a">>]>>
    /\ lineMap[3] = [FromLine |-> 10, ToLine |-> 20]

\* the hunk that holds flattened position pos
RECURSIVE HunkOf(_, _, _)
HunkOf(hs, pos, h) ==
    IF pos <= LinesBefore(hs, h + 1) THEN h ELSE HunkOf(hs, pos, h + 1)

\* C2 as stated: at every position FromLine = -1 exactly for an Added line,
\* ToLine = -1 exactly for a Deleted line, and a Context line has both >= 1,
\* under every hunk header.
C2_SentinelsUnderEveryHeader ==
    mapPc = "done" =>
        \A i \in 1..Len(lineMap) :
            /\ (lineMap[i].FromLine = -1) <=> IsAdded(snippet[i])
            /\ (lineMap[i].ToLine = -1) <=> IsDeleted(snippet[i])
            /\ IsContext(snippet[i]) => lineMap[i].FromLine >= 1 /\ lineMap[i].ToLine >= 1

\* C2 amended: FromLine = -1 exactly for an Added line under every header;
\* ToLine = -1 for every Deleted line, and only for Deleted lines when the
\* parsed destination start is not negative; a Context line has both >= 1
\* when both parsed starts are >= 1, and FromLine >= 0 always.
C2_SentinelsWhenStartsParse ==
    mapPc = "done" =>
        \A i \in 1..Len(lineMap) :
            LET hd   == hunks[HunkOf(hunks, i, 1)].header
                src0 == SrcStartOf[hd]
                dst0 == DestStartOf[hd]
            IN  /\ (lineMap[i].FromLine = -1) <=> IsAdded(snippet[i])
                /\ IsDeleted(snippet[i]) => lineMap[i].ToLine = -1
                /\ ~IsAdded(snippet[i]) => lineMap[i].FromLine >= 0
                /\ dst0 >= 0 => ((lineMap[i].ToLine = -1) <=> IsDeleted(snippet[i]))
                /\ (src0 >= 1 /\ dst0 >= 1 /\ IsContext(snippet[i]))
                      => lineMap[i].FromLine >= 1 /\ lineMap[i].ToLine >= 1

\* a hunk with positive starts that holds a context, a deleted and an added line
C2_Witness ==
    /\ mapPc = "done"
    /\ hunks = <<[header |-> "@@ -5 +5 @@", lines |-> <<" a", "-c", "+b">>]>>
    /\ lineMap = <<[FromLine |-> 5, ToLine |-> 5],
                   [FromLine |-> 6, ToLine |-> -1],
                   [FromLine |-> -1, ToLine |-> 6]>>

(***************************************************************************)
(* The anchor-search specification: NearestMatchingLineIndex and the       *)
(* caller's override of the reported position, on every input below.       *)
(***************************************************************************)
\* lines whose normalized texts are "a", "b" and "a b"
NearLineSet == {" a", "+b", "-a b"}

\* no anchor, anchors that match one or two kinds of line, an anchor with a
\* sign and blanks around it, one that matches nothing, a bare sign
NearAnchors == {"", "a", "+ b ", "a b", "zz", "+"}

InitNear ==
    /\ InlineIdle
    /\ TaskIdle
    /\ ScanIdle
    /\ ReviewIdle
    /\ MapIdle
    /\ diffLines \in UNION {[1..n -> NearLineSet] : n \in 0..MaxNearLines}
    /\ anchor \in NearAnchors
    /\ reported \in (-1)..(MaxNearLines + 2)
    /\ nearIdx = -1
    /\ nearPos = 0
    /\ nearPc = "input"

CallNearest ==
    /\ nearPc = "input"
    /\ nearIdx' = NearestMatchingLineIndex(diffLines, anchor, reported - 1)
    /\ nearPos' = AnchorCorrectedPosition(diffLines, Len(diffLines), anchor, reported)
    /\ nearPc' = "done"
    /\ UNCHANGED <<diffLines, anchor, reported, mapVars, inlineVars, taskVars, scanVars,
                   reviewVars>>

NextNear == CallNearest

SpecNear == InitNear /\ [][NextNear]_vars

Abs(x) == IF x < 0 THEN 0 - x ELSE x

\* the 0-based indices of the lines whose normalized text contains the
\* normalized anchor
MatchingIndices ==
    {i \in 0..(Len(diffLines) - 1) : Contains(Strip(diffLines[i + 1]), NormAnchor(anchor))}

ClampedHint ==
    IF reported - 1 < 0 THEN 0
    ELSE IF reported - 1 > Len(diffLines) - 1 THEN Len(diffLines) - 1
    ELSE reported - 1

\* C4: with non-empty diffLines and anchor, NearestMatchingLineIndex returns
\* -1 exactly when no line matches, and otherwise a matching index nearest
\* to the clamped hint, the lower one of two equally near; the caller then
\* sets the position to that index + 1, so a single matching line is the
\* line the comment resolves to, whatever position was reported.
C4_NearestMatchWins ==
    (nearPc = "done" /\ Len(diffLines) > 0 /\ anchor # "") =>
        /\ (nearIdx = -1) <=> (MatchingIndices = {})
        /\ MatchingIndices # {} =>
              /\ nearIdx \in MatchingIndices
              /\ \A j \in MatchingIndices :
                    /\ Abs(nearIdx - ClampedHint) <= Abs(j - ClampedHint)
                    /\ Abs(nearIdx - ClampedHint) = Abs(j - ClampedHint) => nearIdx <= j
              /\ nearPos = nearIdx + 1
        /\ \A i \in MatchingIndices : MatchingIndices = {i} => nearPos = i + 1

\* two matching lines equally far from the hint, none nearer: the lower one
\* is returned and replaces the reported position
C4_Witness ==
    /\ nearPc = "done"
    /\ anchor # ""
    /\ \E d \in 1..MaxNearLines :
          /\ {ClampedHint - d, ClampedHint + d} \subseteq MatchingIndices
          /\ \A j \in MatchingIndices : Abs(j - ClampedHint) >= d
          /\ nearIdx = ClampedHint - d
          /\ nearPos = ClampedHint - d + 1
          /\ nearPos # reported

(***************************************************************************)
(* AutoReviewPRHandler.ensureInlineReviewComments, one step per branch of  *)
(* its control flow.                                                       *)
(***************************************************************************)
MaxAI == 2           \* comments the AI returns in one call of the function
MaxPos == 4          \* largest position an AI comment reports
MaxTotalCount == 1   \* largest totalCommentCount passed in

defaultMaxInline == 100
defaultMaxTotal == 200
reviewBotMarker == "<!-- auto-review-bot -->"

\* two files: "a" (whose hunk also receives the "--- a/b" line of the next
\* file header) and "b" (an unparsable hunk header, then a hunk that restarts
\* at line 1)
DiffTwoFiles ==
    "diff --git a/a b/a\n--- a/a\n+++ b/a\n@@ -5 +5 @@\n-c\n+b\n a\n"
    \o "diff --git a/b b/b\n--- a/b\n+++ b/b\n@@ -x +y @@\n+b\n a\n@@ -1 +1 @@\n a"

\* a file without hunks, then a file without a "+++ b/" line
DiffNoPath ==
    "diff --git a/e b/e\n+++ b/e\ndiff --git a/d b/d\n+++ /dev/null\n@@ -1 +1 @@\n a\n"

Diffs == {DiffTwoFiles, DiffNoPath}
MaxInlineSettings == {0, 1, 2}
MaxTotalSettings == {0, 1}
ExistingKeySets == {{}, {"a:5"}, {"a:5", "b:1"}}
Bodies == {"ok", "", "rm x"}
Anchors == {"", "b", "zz"}
AIComments == [Body : Bodies, Position : 0..MaxPos, Anchor : Anchors]

\* fmt.Sprintf("%s:%d", c.Path, c.Position)
InlineKey(path, position) == path \o ":" \o ToString(position)

MinPicksLarger(a, b) == IF a < b THEN b ELSE a

\* "remaining := remainingByInline; if remainingByTotal < remaining ..."
Min(a, b) == IF a < b THEN a ELSE b

MaxInlineOf(cfg) == IF cfg <= 0 THEN defaultMaxInline ELSE cfg
MaxTotalOf(cfg) == IF cfg <= 0 THEN defaultMaxTotal ELSE cfg
RemainingByInline == MaxInlineOf(cfgMaxInline) - Cardinality(existingInlineComments)
RemainingByTotal == MaxTotalOf(cfgMaxTotal) - totalCommentCount

ResolveCommentClamped(c, lines, lmap, filePath) ==
    LET pos  == AnchorCorrectedPosition(lines, Len(lmap), c.Anchor, c.Position)
        near == IF pos <= 0 THEN 1 ELSE IF pos > Len(lmap) THEN Len(lmap) ELSE pos
    IN  IF lmap[near].ToLine <= 0
        THEN [c |-> [Body |-> c.Body, Path |-> "", Position |-> 0, FromLine |-> 0],
              counter |-> "deletedLine"]
        ELSE [c |-> [Body |-> c.Body, Path |-> filePath,
                     Position |-> lmap[near].ToLine, FromLine |-> lmap[near].FromLine],
              counter |-> ""]

\* the first loop over comments: what comments[i] is after its iteration
\* (the anchor is not read again and is left out) and the counter it bumps
ResolveComment(c, lines, lmap, filePath) ==
    LET pos == AnchorCorrectedPosition(lines, Len(lmap), c.Anchor, c.Position)
    IN  IF pos <= 0 \/ pos > Len(lmap)
        THEN [c |-> [Body |-> c.Body, Path |-> "", Position |-> 0, FromLine |-> 0],
              counter |-> "outOfRange"]
        ELSE IF lmap[pos].ToLine <= 0
        THEN [c |-> [Body |-> c.Body, Path |-> "", Position |-> 0, FromLine |-> 0],
              counter |-> "deletedLine"]
        ELSE [c |-> [Body |-> c.Body, Path |-> filePath,
                     Position |-> lmap[pos].ToLine, FromLine |-> lmap[pos].FromLine],
              counter |-> ""]

PostedBodyAlwaysAppends(body) == FormatReviewBody(body) \o "\n\n" \o reviewBotMarker

\* the body handed to PushPullRequestInlineComment
PostedBody(body) ==
    LET formattedBody == FormatReviewBody(body)
    IN  IF Contains(formattedBody, reviewBotMarker)
        THEN formattedBody
        ELSE formattedBody \o "\n\n" \o reviewBotMarker

FromLineForAPI(fromLine) == IF fromLine < 0 THEN 0 ELSE fromLine

InitInline ==
    /\ MapIdle
    /\ NearIdle
    /\ TaskIdle
    /\ ScanIdle
    /\ ReviewIdle
    /\ cfgMaxInline \in MaxInlineSettings
    /\ cfgMaxTotal \in MaxTotalSettings
    /\ totalCommentCount \in 0..MaxTotalCount
    /\ skipInline \in BOOLEAN
    /\ hasInlineAlready \in BOOLEAN
    /\ diff \in Diffs
    /\ existingInlineComments \in ExistingKeySets
    /\ existingAtEntry = existingInlineComments
    /\ InlineLocalsInit
    /\ aiRaws = <<>>
    /\ inPc = "entry"

\* the variables ensureInlineReviewComments does not touch, and the history
\* of what the AI returned, which is recorded in SpecResolve only
outsideInline == <<mapVars, nearVars, taskVars, scanVars, reviewVars, aiRaws>>

inputVars ==
    <<cfgMaxInline, cfgMaxTotal, totalCommentCount, skipInline, hasInlineAlready,
      diff, existingAtEntry>>

\* the first "if" alone: a pull request that already has an inline review
\* is reviewed again
SkipsInlineReviewOnSkipInlineOnly(skip, has) ==
    skip

\* "if skipInline { return 0, nil }", "if hasInlineAlready { return 0, nil }"
SkipsInlineReview(skip, has) ==
    skip \/ has

\* "if skipInline" / "if hasInlineAlready": return 0
EnterSkip ==
    /\ inPc = "entry"
    /\ SkipsInlineReview(skipInline, hasInlineAlready)
    /\ inPc' = "returned"
    /\ UNCHANGED <<inputVars, existingInlineComments, parsed, remaining,
                   fileIdx, allLines, fileLineMap, aiLen, comments, postIdx,
                   postedCount, calls, diag, aiCount, outsideInline>>

\* "if remainingByInline <= 0": return 0
EnterInlineLimit ==
    /\ inPc = "entry"
    /\ ~SkipsInlineReview(skipInline, hasInlineAlready)
    /\ RemainingByInline <= 0
    /\ parsed' = ParseDiff(diff)
    /\ inPc' = "returned"
    /\ UNCHANGED <<inputVars, existingInlineComments, remaining, fileIdx,
                   allLines, fileLineMap, aiLen, comments, postIdx, postedCount,
                   calls, diag, aiCount, outsideInline>>

\* "if remainingByTotal <= 0": return 0
EnterTotalLimit ==
    /\ inPc = "entry"
    /\ ~SkipsInlineReview(skipInline, hasInlineAlready)
    /\ RemainingByInline > 0
    /\ RemainingByTotal <= 0
    /\ parsed' = ParseDiff(diff)
    /\ inPc' = "returned"
    /\ UNCHANGED <<inputVars, existingInlineComments, remaining, fileIdx,
                   allLines, fileLineMap, aiLen, comments, postIdx, postedCount,
                   calls, diag, aiCount, outsideInline>>

\* the function reaches its loop over the parsed files
EnterLoop ==
    /\ inPc = "entry"
    /\ ~SkipsInlineReview(skipInline, hasInlineAlready)
    /\ RemainingByInline > 0
    /\ RemainingByTotal > 0
    /\ parsed' = ParseDiff(diff)
    /\ remaining' = Min(RemainingByInline, RemainingByTotal)
    /\ fileIdx' = 1
    /\ inPc' = "file"
    /\ UNCHANGED <<inputVars, existingInlineComments, allLines, fileLineMap,
                   aiLen, comments, postIdx, postedCount, calls, diag, aiCount,
                   outsideInline>>

\* "for _, file := range parsed" has no file left: return postedCount
FileLoopDone ==
    /\ inPc = "file"
    /\ fileIdx > Len(parsed)
    /\ inPc' = "returned"
    /\ UNCHANGED <<inputVars, existingInlineComments, parsed, remaining,
                   fileIdx, allLines, fileLineMap, aiLen, comments, postIdx,
                   postedCount, calls, diag, aiCount, outsideInline>>

\* "if postedCount >= remaining" at the top of the loop over files: break
FileCapBreak ==
    /\ inPc = "file"
    /\ fileIdx <= Len(parsed)
    /\ postedCount >= remaining
    /\ inPc' = "returned"
    /\ UNCHANGED <<inputVars, existingInlineComments, parsed, remaining,
                   fileIdx, allLines, fileLineMap, aiLen, comments, postIdx,
                   postedCount, calls, diag, aiCount, outsideInline>>

\* "if len(allLines) == 0": emptySnippet++, continue
FileEmptySnippet ==
    /\ inPc = "file"
    /\ fileIdx <= Len(parsed)
    /\ postedCount < remaining
    /\ LET built == BuildDiffSnippetAndLineMap(parsed[fileIdx].hunks)
       IN  Len(built.snippet) = 0
    /\ diag' = "emptySnippet"
    /\ fileIdx' = fileIdx + 1
    /\ UNCHANGED <<inputVars, existingInlineComments, parsed, remaining,
                   allLines, fileLineMap, aiLen, comments, postIdx, postedCount,
                   calls, inPc, aiCount, outsideInline>>

FileAIErrorReturns ==
    /\ inPc = "file"
    /\ fileIdx <= Len(parsed)
    /\ postedCount < remaining
    /\ LET built == BuildDiffSnippetAndLineMap(parsed[fileIdx].hunks)
       IN  Len(built.snippet) > 0
    /\ diag' = "aiError"
    /\ inPc' = "returned"
    /\ UNCHANGED <<inputVars, existingInlineComments, parsed, remaining, fileIdx,
                   allLines, fileLineMap, aiLen, comments, postIdx, postedCount,
                   calls, aiCount, outsideInline>>

\* helper.GetAIResponse returns an error: continue
FileAIError ==
    /\ inPc = "file"
    /\ fileIdx <= Len(parsed)
    /\ postedCount < remaining
    /\ LET built == BuildDiffSnippetAndLineMap(parsed[fileIdx].hunks)
       IN  Len(built.snippet) > 0
    /\ diag' = "aiError"
    /\ fileIdx' = fileIdx + 1
    /\ UNCHANGED <<inputVars, existingInlineComments, parsed, remaining,
                   allLines, fileLineMap, aiLen, comments, postIdx, postedCount,
                   calls, inPc, aiCount, outsideInline>>

\* helper.GetAIResponse returns n comments (aiCount stays within MaxAI); the
\* first loop reads comments[i] in its i-th iteration only, and the model
\* draws it there
FileAIResponse ==
    /\ inPc = "file"
    /\ fileIdx <= Len(parsed)
    /\ postedCount < remaining
    /\ LET built == BuildDiffSnippetAndLineMap(parsed[fileIdx].hunks)
       IN  /\ Len(built.snippet) > 0
           /\ allLines' = built.snippet
           /\ fileLineMap' = built.lineMap
    /\ \E n \in 0..(MaxAI - aiCount) :
          /\ aiLen' = n
          /\ aiCount' = aiCount + n
    /\ comments' = <<>>
    /\ diag' = ""
    /\ inPc' = "resolve"
    /\ UNCHANGED <<inputVars, existingInlineComments, parsed, remaining,
                   fileIdx, postIdx, postedCount, calls, outsideInline>>

\* one iteration of "for i := range comments"
ResolveNext ==
    /\ inPc = "resolve"
    /\ Len(comments) < aiLen
    /\ \E c \in AIComments :
          LET r == ResolveComment(c, allLines, fileLineMap, parsed[fileIdx].path)
          IN  /\ comments' = Append(comments, r.c)
              /\ diag' = IF r.counter = "" THEN diag ELSE r.counter
    /\ UNCHANGED <<inputVars, existingInlineComments, parsed, remaining,
                   fileIdx, allLines, fileLineMap, aiLen, postIdx, postedCount,
                   calls, inPc, aiCount, outsideInline>>

\* the first loop is over, the second begins
ResolveDone ==
    /\ inPc = "resolve"
    /\ Len(comments) = aiLen
    /\ postIdx' = 1
    /\ inPc' = "post"
    /\ UNCHANGED <<inputVars, existingInlineComments, parsed, remaining,
                   fileIdx, allLines, fileLineMap, aiLen, comments, postedCount,
                   calls, diag, aiCount, outsideInline>>

\* "for _, c := range comments" has no comment left: the iteration of the
\* loop over files ends and its locals with it
PostLoopDone ==
    /\ inPc = "post"
    /\ postIdx > Len(comments)
    /\ fileIdx' = fileIdx + 1
    /\ allLines' = <<>>
    /\ fileLineMap' = <<>>
    /\ aiLen' = 0
    /\ comments' = <<>>
    /\ postIdx' = 0
    /\ diag' = ""
    /\ inPc' = "file"
    /\ UNCHANGED <<inputVars, existingInlineComments, parsed, remaining,
                   postedCount, calls, aiCount, outsideInline>>

\* "if postedCount >= remaining" in the loop over comments: break, next file
PostCapBreak ==
    /\ inPc = "post"
    /\ postIdx <= Len(comments)
    /\ postedCount >= remaining
    /\ fileIdx' = fileIdx + 1
    /\ allLines' = <<>>
    /\ fileLineMap' = <<>>
    /\ aiLen' = 0
    /\ comments' = <<>>
    /\ postIdx' = 0
    /\ diag' = ""
    /\ inPc' = "file"
    /\ UNCHANGED <<inputVars, existingInlineComments, parsed, remaining,
                   postedCount, calls, aiCount, outsideInline>>

SkipReasonIgnoresLocation(c, existing) ==
    IF c.Body = "" THEN "emptyBody"
    ELSE IF LooksLikeCommand(c.Body) THEN "commandBody"
    ELSE IF InlineKey(c.Path, c.Position) \in existing THEN "duplicate"
    ELSE ""

\* why the second loop passes over comment c without posting it ("" if it
\* does not)
SkipReason(c, existing) ==
    IF c.Body = "" THEN "emptyBody"
    ELSE IF LooksLikeCommand(c.Body) THEN "commandBody"
    ELSE IF c.Path = "" \/ c.Position <= 0 THEN "missingLocation"
    ELSE IF InlineKey(c.Path, c.Position) \in existing THEN "duplicate"
    ELSE ""

\* an iteration of the second loop that ends in "continue"
PostSkip ==
    /\ inPc = "post"
    /\ postIdx <= Len(comments)
    /\ postedCount < remaining
    /\ SkipReason(comments[postIdx], existingInlineComments) # ""
    /\ diag' = SkipReason(comments[postIdx], existingInlineComments)
    /\ postIdx' = postIdx + 1
    /\ UNCHANGED <<inputVars, existingInlineComments, parsed, remaining,
                   fileIdx, allLines, fileLineMap, aiLen, comments, postedCount,
                   calls, inPc, aiCount, outsideInline>>

KeysAfterPostForgets(existing, key, ok) == existing

KeysAfterPostEvenOnError(existing, key, ok) == existing \cup {key}

\* "existingInlineComments[key] = true" when the call returned no error
KeysAfterPost(existing, key, ok) == IF ok THEN existing \cup {key} ELSE existing

\* an iteration of the second loop that calls PushPullRequestInlineComment,
\* which succeeds or returns an error
PostPush ==
    /\ inPc = "post"
    /\ postIdx <= Len(comments)
    /\ postedCount < remaining
    /\ SkipReason(comments[postIdx], existingInlineComments) = ""
    /\ LET c   == comments[postIdx]
           key == InlineKey(c.Path, c.Position)
       IN  \E ok \in BOOLEAN :
              /\ calls' = Append(calls, [path |-> c.Path,
                                         fromLine |-> FromLineForAPI(c.FromLine),
                                         toLine |-> c.Position,
                                         body |-> PostedBody(c.Body),
                                         ok |-> ok])
              /\ postedCount' = IF ok THEN postedCount + 1 ELSE postedCount
              /\ existingInlineComments' = KeysAfterPost(existingInlineComments, key, ok)
    /\ postIdx' = postIdx + 1
    /\ UNCHANGED <<inputVars, parsed, remaining, fileIdx, allLines, fileLineMap,
                   aiLen, comments, diag, inPc, aiCount, outsideInline>>

NextInline ==
    \/ EnterSkip
    \/ EnterInlineLimit
    \/ EnterTotalLimit
    \/ EnterLoop
    \/ FileLoopDone
    \/ FileCapBreak
    \/ FileEmptySnippet
    \/ FileAIError
    \/ FileAIResponse
    \/ ResolveNext
    \/ ResolveDone
    \/ PostLoopDone
    \/ PostCapBreak
    \/ PostSkip
    \/ PostPush

SpecInline == InitInline /\ [][NextInline]_vars

(***************************************************************************)
(* Properties of ensureInlineReviewComments                                *)
(***************************************************************************)
\* position is the ToLine of a line of lines, mapped by lmap, that is not
\* deleted
IsDestinationLine(lines, lmap, position) ==
    \E i \in 1..Len(lmap) : lmap[i].ToLine = position /\ ~IsDeleted(lines[i])

\* path is the path of a file of the parsed diff, and position the ToLine of
\* a line of its flattened hunks that is not deleted
IsDestinationLineOf(path, position) ==
    \E f \in 1..Len(parsed) :
        /\ parsed[f].path = path
        /\ LET flat == BuildDiffSnippetAndLineMap(parsed[f].hunks)
           IN  IsDestinationLine(flat.snippet, flat.lineMap, position)

CallKey(call) == InlineKey(call.path, call.toLine)

OkCalls == {k \in 1..Len(calls) : calls[k].ok}

\* C3: every comment the first loop keeps (Position >= 1) carries the path of
\* its file and the ToLine of a line of that file that is not deleted, every
\* other comment is left with Position 0 and no path, and every call to
\* PushPullRequestInlineComment has a non-empty path and a toLine >= 1 that
\* is the ToLine of a non-deleted line of the flattened diff of that file.
C3_PostsOnlyOnDestinationLines ==
    /\ \A j \in 1..Len(comments) :
          IF comments[j].Position >= 1
          THEN /\ comments[j].Path = parsed[fileIdx].path
               /\ IsDestinationLine(allLines, fileLineMap, comments[j].Position)
          ELSE comments[j].Position = 0 /\ comments[j].Path = ""
    /\ \A k \in 1..Len(calls) :
          /\ calls[k].path # ""
          /\ calls[k].toLine >= 1
          /\ IsDestinationLineOf(calls[k].path, calls[k].toLine)

\* a comment on a deleted line has been discarded by the first loop and
\* passed over by the second, which has then posted another comment
C3_Witness ==
    /\ inPc = "post"
    /\ postIdx = 3
    /\ diag = "missingLocation"
    /\ comments[1].Position = 0
    /\ comments[1].Body = "ok"
    /\ IsDeleted(allLines[1])
    /\ Len(calls) = 1
    /\ calls[1].ok
    /\ calls[1].toLine = comments[2].Position

\* C5: with maxInline and maxTotal the configured values, or 100 and 200 for
\* configured values <= 0, the call posts at most
\* min(maxInline - |keys at entry|, maxTotal - totalCommentCount) comments,
\* and makes no call at all when one of the two differences is <= 0.
C5_PostsAtMostRemaining ==
    LET maxInline == IF cfgMaxInline <= 0 THEN 100 ELSE cfgMaxInline
        maxTotal  == IF cfgMaxTotal <= 0 THEN 200 ELSE cfgMaxTotal
        byInline  == maxInline - Cardinality(existingAtEntry)
        byTotal   == maxTotal - totalCommentCount
    IN  IF byInline <= 0 \/ byTotal <= 0
        THEN calls = <<>>
        ELSE /\ Cardinality(OkCalls) <= byInline
             /\ Cardinality(OkCalls) <= byTotal

\* the cap is reached while a comment that would otherwise be posted waits
C5_Witness ==
    /\ inPc = "post"
    /\ postIdx <= Len(comments)
    /\ postedCount = remaining
    /\ Cardinality(OkCalls) = remaining
    /\ SkipReason(comments[postIdx], existingInlineComments) = ""

\* C6: no call is made for a key the map held at entry, no two successful
\* calls have the same key, and every comment the second loop has gone
\* through that has a body and a location is either in the map by now
\* (posted by it or before it) or was refused by Bitbucket: a duplicate
\* passed over does not hide the comments after it.
C6_NoDuplicateKeys ==
    /\ \A k \in 1..Len(calls) : CallKey(calls[k]) \notin existingAtEntry
    /\ \A k1, k2 \in OkCalls : k1 # k2 => CallKey(calls[k1]) # CallKey(calls[k2])
    /\ inPc = "post" =>
          \A j \in 1..(postIdx - 1) :
             LET c == comments[j]
             IN  (c.Body # "" /\ ~LooksLikeCommand(c.Body) /\ c.Path # "" /\ c.Position >= 1)
                 => \/ InlineKey(c.Path, c.Position) \in existingInlineComments
                    \/ \E k \in 1..Len(calls) :
                          /\ ~calls[k].ok
                          /\ CallKey(calls[k]) = InlineKey(c.Path, c.Position)

\* the first comment resolves to a key held at entry and is passed over, the
\* second is posted
C6_Witness ==
    /\ inPc = "post"
    /\ postIdx = 3
    /\ existingAtEntry # {}
    /\ InlineKey(comments[1].Path, comments[1].Position) \in existingAtEntry
    /\ comments[1].Body = "ok"
    /\ Len(calls) = 1
    /\ calls[1].ok
    /\ CallKey(calls[1]) = InlineKey(comments[2].Path, comments[2].Position)

(***************************************************************************)
(* reviewTask on one AutoReviewPRHandler: the scheduler runs every job in  *)
(* its own goroutine, a job never overlaps itself (SingletonMode), and     *)
(* the steps of the invocations interleave.                                *)
(***************************************************************************)
MaxRuns == 2   \* invocations the scheduler starts for one job
MaxOps == 2    \* Bitbucket and AI operations of one invocation

\* the variables reviewTask's locking does not touch
outsideTask == <<mapVars, nearVars, inlineVars, scanVars, reviewVars>>

MutexAlwaysFree(m) == TRUE

\* sync.Mutex: Lock returns once the mutex is unlocked
MutexFree(m) == m = 0

InitTask ==
    /\ MapIdle
    /\ NearIdle
    /\ InlineIdle
    /\ ScanIdle
    /\ ReviewIdle
    /\ mutex = 0
    /\ isRunning = FALSE
    /\ taskPc = [j \in Jobs |-> "wait"]
    /\ taskOps = [j \in Jobs |-> 0]
    /\ taskRuns = [j \in Jobs |-> 0]
    /\ taskOutcome = [j \in Jobs |-> "none"]

\* the scheduler starts reviewTask for job j
TaskStart(j) ==
    /\ taskPc[j] = "wait"
    /\ taskRuns[j] < MaxRuns
    /\ taskRuns' = [taskRuns EXCEPT ![j] = @ + 1]
    /\ taskOps' = [taskOps EXCEPT ![j] = 0]
    /\ taskPc' = [taskPc EXCEPT ![j] = "lock"]
    /\ UNCHANGED <<mutex, isRunning, taskOutcome, outsideTask>>

\* ar.mutex.Lock()
TaskLock(j) ==
    /\ taskPc[j] = "lock"
    /\ MutexFree(mutex)
    /\ mutex' = j
    /\ taskPc' = [taskPc EXCEPT ![j] = "check"]
    /\ UNCHANGED <<isRunning, taskOps, taskRuns, taskOutcome, outsideTask>>

\* "if ar.isRunning"
TaskCheck(j) ==
    /\ taskPc[j] = "check"
    /\ taskPc' = [taskPc EXCEPT ![j] = IF isRunning THEN "skip" ELSE "set"]
    /\ UNCHANGED <<mutex, isRunning, taskOps, taskRuns, taskOutcome, outsideTask>>

\* ar.mutex.Unlock(); return nil
TaskSkip(j) ==
    /\ taskPc[j] = "skip"
    /\ mutex' = 0
    /\ taskOutcome' = [taskOutcome EXCEPT ![j] = "skipped"]
    /\ taskPc' = [taskPc EXCEPT ![j] = "wait"]
    /\ UNCHANGED <<isRunning, taskOps, taskRuns, outsideTask>>

\* ar.isRunning = true
TaskSet(j) ==
    /\ taskPc[j] = "set"
    /\ isRunning' = TRUE
    /\ taskPc' = [taskPc EXCEPT ![j] = "unlock"]
    /\ UNCHANGED <<mutex, taskOps, taskRuns, taskOutcome, outsideTask>>

\* ar.mutex.Unlock(), the deferred function is registered
TaskUnlock(j) ==
    /\ taskPc[j] = "unlock"
    /\ mutex' = 0
    /\ taskPc' = [taskPc EXCEPT ![j] = "fetch"]
    /\ UNCHANGED <<isRunning, taskOps, taskRuns, taskOutcome, outsideTask>>

\* the error return leaves reviewTask without running the deferred function
ReturnSkipsDeferred(ok) ==
    IF ok THEN "review" ELSE "wait"

\* "if err != nil { return err }" below the defer statement: the return runs
\* the deferred function
AfterFetchAllPullRequests(ok) ==
    IF ok THEN "review" ELSE "deferLock"

\* ar.Bitbucket.FetchAllPullRequests: on an error reviewTask returns it
TaskFetch(j) ==
    /\ taskPc[j] = "fetch"
    /\ taskOps' = [taskOps EXCEPT ![j] = @ + 1]
    /\ \E ok \in BOOLEAN :
          taskPc' = [taskPc EXCEPT ![j] = AfterFetchAllPullRequests(ok)]
    /\ UNCHANGED <<mutex, isRunning, taskRuns, taskOutcome, outsideTask>>

\* one more Bitbucket or AI operation of the loop over the pull requests
TaskOperation(j) ==
    /\ taskPc[j] = "review"
    /\ taskOps[j] < MaxOps
    /\ taskOps' = [taskOps EXCEPT ![j] = @ + 1]
    /\ UNCHANGED <<mutex, isRunning, taskPc, taskRuns, taskOutcome, outsideTask>>

\* reviewTask returns from the loop, with nil or with an error
TaskReturn(j) ==
    /\ taskPc[j] = "review"
    /\ taskPc' = [taskPc EXCEPT ![j] = "deferLock"]
    /\ UNCHANGED <<mutex, isRunning, taskOps, taskRuns, taskOutcome, outsideTask>>

\* deferred: ar.mutex.Lock()
TaskDeferLock(j) ==
    /\ taskPc[j] = "deferLock"
    /\ MutexFree(mutex)
    /\ mutex' = j
    /\ taskPc' = [taskPc EXCEPT ![j] = "deferReset"]
    /\ UNCHANGED <<isRunning, taskOps, taskRuns, taskOutcome, outsideTask>>

\* deferred: ar.isRunning = false
TaskDeferReset(j) ==
    /\ taskPc[j] = "deferReset"
    /\ isRunning' = FALSE
    /\ taskPc' = [taskPc EXCEPT ![j] = "deferUnlock"]
    /\ UNCHANGED <<mutex, taskOps, taskRuns, taskOutcome, outsideTask>>

\* deferred: ar.mutex.Unlock()
TaskDeferUnlock(j) ==
    /\ taskPc[j] = "deferUnlock"
    /\ mutex' = 0
    /\ taskOutcome' = [taskOutcome EXCEPT ![j] = "ran"]
    /\ taskPc' = [taskPc EXCEPT ![j] = "wait"]
    /\ UNCHANGED <<isRunning, taskOps, taskRuns, outsideTask>>

NextTask ==
    \E j \in Jobs :
        \/ TaskStart(j)
        \/ TaskLock(j)
        \/ TaskCheck(j)
        \/ TaskSkip(j)
        \/ TaskSet(j)
        \/ TaskUnlock(j)
        \/ TaskFetch(j)
        \/ TaskOperation(j)
        \/ TaskReturn(j)
        \/ TaskDeferLock(j)
        \/ TaskDeferReset(j)
        \/ TaskDeferUnlock(j)

SpecTask == InitTask /\ [][NextTask]_vars

\* the steps of job j's invocation once the scheduler has started it
TaskRun(j) ==
    \/ TaskLock(j)
    \/ TaskCheck(j)
    \/ TaskSkip(j)
    \/ TaskSet(j)
    \/ TaskUnlock(j)
    \/ TaskFetch(j)
    \/ TaskReturn(j)
    \/ TaskDeferLock(j)
    \/ TaskDeferReset(j)
    \/ TaskDeferUnlock(j)

\* a goroutine that can run is run, a call to Bitbucket or to the AI comes
\* back, and a goroutine that finds the mutex free again and again gets it
\* in the end (sync.Mutex hands it over to a waiter that has waited long)
SpecTaskFair ==
    SpecTask /\ \A j \in Jobs : SF_vars(TaskRun(j))

\* the jobs whose invocation has set isRunning and not yet reset it
Executing == {j \in Jobs : taskPc[j] \in {"unlock", "fetch", "review", "deferLock", "deferReset"}}

\* C7: at most one invocation is between setting isRunning and resetting it,
\* isRunning is true exactly while there is one (so an invocation that finds
\* it true leaves it as it is), only that invocation is at a Bitbucket or AI
\* operation, and an invocation that found isRunning true has called none.
C7_OneReviewAtATime ==
    /\ Cardinality(Executing) <= 1
    /\ isRunning <=> Executing # {}
    /\ \A j \in Jobs :
          /\ taskPc[j] \in {"fetch", "review"} => Executing = {j}
          /\ taskPc[j] = "skip" => taskOps[j] = 0
          /\ (taskPc[j] = "wait" /\ taskOutcome[j] = "skipped") => taskOps[j] = 0

\* one invocation is in its loop over the pull requests, another has found
\* isRunning true and returned
C7_Witness ==
    \E j1, j2 \in Jobs :
        /\ j1 # j2
        /\ taskPc[j1] = "review"
        /\ taskOps[j1] = MaxOps
        /\ taskPc[j2] = "wait"
        /\ taskOutcome[j2] = "skipped"
        /\ isRunning

(***************************************************************************)
(* helper.FormatSummaryBody and the body PostSummaryComment posts          *)
(***************************************************************************)
summaryHeaders ==
    <<"**New Features**", "**Bug Fixes**", "**Documentation**", "**Refactor**",
      "**Performance**", "**Tests**", "**Chores**">>

plainHeaders ==
    <<"New Features", "Bug Fixes", "Documentation", "Refactor", "Performance",
      "Tests", "Chores">>

RECURSIVE BreakAfterHeaders(_, _)
BreakAfterHeaders(s, k) ==
    IF k > Len(summaryHeaders) \/ s = "" THEN s
    ELSE LET h  == summaryHeaders[k]
             s1 == ReplaceAll(s, h \o " - ", h \o "\n\n- ")
             s2 == ReplaceAll(s1, h \o "- ", h \o "\n\n- ")
             s3 == ReplaceAll(s2, h \o " -", h \o "\n\n- ")
         IN  BreakAfterHeaders(ReplaceAll(s3, h \o " ", h \o "\n\n"), k + 1)

RECURSIVE BoldPlainHeaders(_, _)
BoldPlainHeaders(s, k) ==
    IF k > Len(plainHeaders) \/ s = "" THEN s
    ELSE LET h    == plainHeaders[k]
             bold == "**" \o h \o "**\n\n"
             s1   == ReplaceAll(s, h \o " - ", bold \o "- ")
             s2   == ReplaceAll(s1, h \o "- ", bold \o "- ")
             s3   == ReplaceAll(s2, h \o ": - ", bold \o "- ")
             s4   == ReplaceAll(s3, h \o ": ", bold)
         IN  BoldPlainHeaders(ReplaceAll(s4, h \o " ", bold), k + 1)

FormatSummaryBody(body) ==
    IF body = "" THEN body
    ELSE LET f1 == ReplaceAll(body, "\r\n", "\n")
             f2 == BoldPlainHeaders(BreakAfterHeaders(f1, 1), 1)
         IN  CollapseBlankLines(ReplaceAll(f2, " - ", "\n- "))

\* the first characters of a commit hash, as git abbreviates one
shortHash(hash) == IF Len(hash) > 7 THEN Head0(hash, 7) ELSE hash

SummaryHead(lastReviewedHash, latestHash) ==
    IF lastReviewedHash # "" /\ latestHash # "" /\ lastReviewedHash # latestHash
    THEN "Summary by Nim (new commits since " \o shortHash(lastReviewedHash) \o ")\n\n"
    ELSE "Summary by Nim\n\n"

SummaryMarkerWithoutBase(latestHash) == reviewBotMarker

SummaryMarker(latestHash) ==
    IF latestHash # ""
    THEN reviewBotMarker \o "\n\n<!-- auto-review-base:" \o latestHash \o " -->"
    ELSE reviewBotMarker

SummaryBody(summaryText, lastReviewedHash, latestHash) ==
    SummaryHead(lastReviewedHash, latestHash) \o FormatSummaryBody(summaryText)
        \o "\n\n" \o SummaryMarker(latestHash)

(***************************************************************************)
(* reviewTask's pass over the comments of a pull request                   *)
(***************************************************************************)
upperLetters == "ABCDEFGHIJKLMNOPQRSTUVWXYZ"
lowerLetters == "abcdefghijklmnopqrstuvwxyz"

LowerChar(c) ==
    LET i == Index(upperLetters, c) IN IF i >= 0 THEN Ch(lowerLetters, i + 1) ELSE c

\* strings.ToLower, over ASCII
RECURSIVE ToLower(_)
ToLower(s) ==
    IF Len(s) = 0 THEN s
    ELSE IF Len(s) = 1 THEN LowerChar(s)
    ELSE ToLower(Head0(s, Len(s) \div 2)) \o ToLower(Tail0(s, Len(s) \div 2))

IsSummaryCommentCaseSensitive(c) ==
    /\ c.body # ""
    /\ ~c.isInline
    /\ LET lc == TrimSpace(c.body)
       IN  \/ HasPrefix(lc, "## summary")
           \/ Contains(lc, "summary by ")
           \/ Contains(lc, "- **new features**")
           \/ Contains(lc, "- **bug fixes**")
           \/ Contains(lc, "- **documentation**")
           \/ Contains(lc, "- **refactor**")
           \/ Contains(lc, "- **performance**")
           \/ Contains(lc, "- **tests**")
           \/ Contains(lc, "- **chores**")

\* only a "## Summary" heading makes a comment a summary
IsSummaryCommentByHeadingOnly(c) ==
    /\ c.body # ""
    /\ ~c.isInline
    /\ HasPrefix(ToLower(TrimSpace(c.body)), "## summary")

\* a general comment that carries a summary already posted
IsSummaryComment(c) ==
    /\ c.body # ""
    /\ ~c.isInline
    /\ LET lc == ToLower(TrimSpace(c.body))
       IN  \/ HasPrefix(lc, "## summary")
           \/ Contains(lc, "summary by ")
           \/ Contains(lc, "- **new features**")
           \/ Contains(lc, "- **bug fixes**")
           \/ Contains(lc, "- **documentation**")
           \/ Contains(lc, "- **refactor**")
           \/ Contains(lc, "- **performance**")
           \/ Contains(lc, "- **tests**")
           \/ Contains(lc, "- **chores**")

ContainsLgtmCaseSensitive(raw) == Contains(TrimSpace(raw), "lgtm")

ContainsLgtm(raw) == Contains(ToLower(TrimSpace(raw)), "lgtm")

\* a general comment without the bot marker that says LGTM
IsPauseComment(c) ==
    ~c.isInline /\ ~Contains(c.body, reviewBotMarker) /\ ContainsLgtm(c.body)

\* an inline comment the bot posted
IsBotInlineComment(c) == c.isInline /\ Contains(c.body, reviewBotMarker)

baseMarkerPrefix == "<!-- auto-review-base:"
baseMarkerSuffix == " -->"

\* the hash of the base-commit marker in body, "" if it has none
BaseMarkerHash(body) ==
    LET i == Index(body, baseMarkerPrefix)
    IN  IF i < 0 THEN ""
        ELSE LET rest == Tail0(body, i + Len(baseMarkerPrefix))
                 j    == Index(rest, baseMarkerSuffix)
             IN  IF j < 0 THEN "" ELSE Head0(rest, j)

\* the last base-commit marker read so far
LastReviewedAfter(last, c) ==
    IF ~c.isInline /\ BaseMarkerHash(c.body) # "" THEN BaseMarkerHash(c.body) ELSE last

CommentKeyWithoutLine(c) == c.path

\* the key of an inline comment already on the pull request
CommentKey(c) == InlineKey(c.path, c.toLine)

MaxComments == 2   \* comments already on the pull request

SummaryHashes == {"abc123", "def456"}
LatestHashes == {"", "fed789"}
SummaryTexts == {"sum", " "}

\* what was written on the pull request before this run, by whom and with what
PastEvents ==
    {[kind |-> "summary", hash |-> h, text |-> "sum"] : h \in SummaryHashes}
        \cup {[kind |-> "summary", hash |-> "", text |-> "Lgtm all"],
              [kind |-> "botInline", hash |-> "", text |-> "ok"],
              [kind |-> "humanInline", hash |-> "", text |-> "nit"],
              [kind |-> "humanInline", hash |-> "", text |-> "lgtm"],
              [kind |-> "human", hash |-> "", text |-> "LGTM!"],
              [kind |-> "human", hash |-> "", text |-> "thanks"]}

RECURSIVE EventLists(_)
EventLists(n) ==
    IF n = 0 THEN {<<>>}
    ELSE EventLists(n - 1)
             \cup {Append(es, e) : es \in {l \in EventLists(n - 1) : Len(l) = n - 1},
                                   e \in PastEvents}

\* the comment the host returns for a past event; last is the base commit
\* the bot had derived when it wrote a summary
CommentOf(e, last) ==
    IF e.kind = "summary"
    THEN [body |-> SummaryBody(e.text, last, e.hash), isInline |-> FALSE,
          path |-> "", toLine |-> 0]
    ELSE IF e.kind = "botInline"
    THEN [body |-> PostedBody(e.text), isInline |-> TRUE, path |-> "a", toLine |-> 5]
    ELSE IF e.kind = "humanInline"
    THEN [body |-> e.text, isInline |-> TRUE, path |-> "a", toLine |-> 6]
    ELSE [body |-> e.text, isInline |-> FALSE, path |-> "", toLine |-> 0]

RECURSIVE CommentsFrom(_, _, _)
CommentsFrom(events, k, last) ==
    IF k > Len(events) THEN <<>>
    ELSE LET c == CommentOf(events[k], last)
         IN  <<c>> \o CommentsFrom(events, k + 1, LastReviewedAfter(last, c))

CommentsOf(events) == CommentsFrom(events, 1, "")

outsideScan == <<mapVars, nearVars, inlineVars, taskVars, reviewVars>>
scanInputs == <<prEvents, prComments, latestCommitHash>>
scanLocals == <<scanIdx, hasSummary, scanKeys, lastReviewedCommitHash, pauseRequested>>

InitScan ==
    /\ MapIdle
    /\ NearIdle
    /\ InlineIdle
    /\ TaskIdle
    /\ ReviewIdle
    /\ prEvents \in EventLists(MaxComments)
    /\ prComments = CommentsOf(prEvents)
    /\ latestCommitHash \in LatestHashes
    /\ ScanLocalsInit
    /\ prPc = "scan"

\* one iteration of the loop over the comments
ScanNext ==
    /\ prPc = "scan"
    /\ scanIdx < Len(prComments)
    /\ LET c == prComments[scanIdx + 1]
       IN  /\ hasSummary' = (hasSummary \/ IsSummaryComment(c))
           /\ pauseRequested' = (pauseRequested \/ IsPauseComment(c))
           /\ scanKeys' = IF IsBotInlineComment(c) THEN scanKeys \cup {CommentKey(c)}
                          ELSE scanKeys
           /\ lastReviewedCommitHash' = LastReviewedAfter(lastReviewedCommitHash, c)
    /\ scanIdx' = scanIdx + 1
    /\ UNCHANGED <<scanInputs, summaryCalls, inlineCalled, prPc, outsideScan>>

ScanDone ==
    /\ prPc = "scan"
    /\ scanIdx = Len(prComments)
    /\ prPc' = "gate"
    /\ UNCHANGED <<scanInputs, scanLocals, summaryCalls, inlineCalled, outsideScan>>

\* LGTM pause: neither summary nor inline review for this pull request
PauseSkip ==
    /\ prPc = "gate"
    /\ pauseRequested
    /\ prPc' = "skipped"
    /\ UNCHANGED <<scanInputs, scanLocals, summaryCalls, inlineCalled, outsideScan>>

GatePass ==
    /\ prPc = "gate"
    /\ ~pauseRequested
    /\ prPc' = "summary"
    /\ UNCHANGED <<scanInputs, scanLocals, summaryCalls, inlineCalled, outsideScan>>

SummaryExists ==
    /\ prPc = "summary"
    /\ hasSummary
    /\ prPc' = "inline"
    /\ UNCHANGED <<scanInputs, scanLocals, summaryCalls, inlineCalled, outsideScan>>

\* PostSummaryComment, GetAISummary fails
SummaryAIError ==
    /\ prPc = "summary"
    /\ ~hasSummary
    /\ prPc' = "inline"
    /\ UNCHANGED <<scanInputs, scanLocals, summaryCalls, inlineCalled, outsideScan>>

\* PostSummaryComment, GetAISummary answers summaryText
SummaryPost ==
    /\ prPc = "summary"
    /\ ~hasSummary
    /\ \E summaryText \in SummaryTexts, ok \in BOOLEAN :
          summaryCalls' =
              IF TrimSpace(summaryText) = "" THEN summaryCalls
              ELSE Append(summaryCalls,
                          [body |-> SummaryBody(summaryText, lastReviewedCommitHash,
                                                latestCommitHash),
                           ok |-> ok])
    /\ prPc' = "inline"
    /\ UNCHANGED <<scanInputs, scanLocals, inlineCalled, outsideScan>>

\* the call of ensureInlineReviewComments with the keys found
CallInline ==
    /\ prPc = "inline"
    /\ inlineCalled' = TRUE
    /\ prPc' = "done"
    /\ UNCHANGED <<scanInputs, scanLocals, summaryCalls, outsideScan>>

NextScan ==
    \/ ScanNext
    \/ ScanDone
    \/ PauseSkip
    \/ GatePass
    \/ SummaryExists
    \/ SummaryAIError
    \/ SummaryPost
    \/ CallInline

SpecScan == InitScan /\ [][NextScan]_vars

Scanned == {k \in 1..Len(prComments) : k <= scanIdx}

\* text says LGTM in any letter case
SaysLgtm(text) ==
    \E i \in 1..(Len(text) - 3) : ToLower(SubSeq(text, i, i + 3)) = "lgtm"

PausingComments ==
    {k \in 1..Len(prComments) :
        /\ ~prComments[k].isInline
        /\ ~Contains(prComments[k].body, reviewBotMarker)
        /\ SaysLgtm(prComments[k].body)}

BaseEvents(n) ==
    {k \in 1..n : prEvents[k].kind = "summary" /\ prEvents[k].hash # ""}

LastOf(S) == CHOOSE k \in S : \A j \in S : j <= k

\* C9: lastReviewedCommitHash is the hash of the last summary comment, in scan
\* order, that carries a base-commit marker, and empty when no comment
\* carries one.
C9_LastBaseMarkerWins ==
    lastReviewedCommitHash =
        IF BaseEvents(scanIdx) = {} THEN ""
        ELSE prEvents[LastOf(BaseEvents(scanIdx))].hash

C9_Witness ==
    /\ prPc # "scan"
    /\ Len(prEvents) = 2
    /\ prEvents[1].hash = "abc123"
    /\ prEvents[2].hash = "def456"
    /\ lastReviewedCommitHash = "def456"

TracedComments == [Body : {"ok"}, Position : 0..MaxPos, Anchor : Anchors]

InitResolve ==
    /\ MapIdle
    /\ NearIdle
    /\ TaskIdle
    /\ ScanIdle
    /\ ReviewIdle
    /\ cfgMaxInline = 0
    /\ cfgMaxTotal = 0
    /\ totalCommentCount = 0
    /\ skipInline = FALSE
    /\ hasInlineAlready = FALSE
    /\ diff \in Diffs
    /\ existingInlineComments = {}
    /\ existingAtEntry = existingInlineComments
    /\ InlineLocalsInit
    /\ aiRaws = <<>>
    /\ inPc = "entry"

\* one iteration of "for i := range comments", the comment recorded
ResolveTraced ==
    /\ inPc = "resolve"
    /\ Len(comments) < aiLen
    /\ \E c \in TracedComments :
          LET r == ResolveComment(c, allLines, fileLineMap, parsed[fileIdx].path)
          IN  /\ comments' = Append(comments, r.c)
              /\ diag' = IF r.counter = "" THEN diag ELSE r.counter
              /\ aiRaws' = Append(aiRaws, [file |-> fileIdx, index |-> Len(comments) + 1,
                                           Body |-> c.Body, Position |-> c.Position,
                                           Anchor |-> c.Anchor])
    /\ UNCHANGED <<inputVars, existingInlineComments, parsed, remaining,
                   fileIdx, allLines, fileLineMap, aiLen, postIdx, postedCount,
                   calls, inPc, aiCount, mapVars, nearVars, taskVars, scanVars,
                   reviewVars>>

NextResolve ==
    \/ EnterLoop
    \/ FileLoopDone
    \/ FileEmptySnippet
    \/ FileAIError
    \/ FileAIResponse
    \/ ResolveTraced
    \/ ResolveDone
    \/ PostLoopDone
    \/ PostSkip
    \/ PostPush

SpecResolve == InitResolve /\ [][NextResolve]_vars

\* the comment the AI returned as the i-th of its response for file f
RawOf(f, i) ==
    LET k == CHOOSE k \in 1..Len(aiRaws) : aiRaws[k].file = f /\ aiRaws[k].index = i
    IN  aiRaws[k]

\* raw carries an anchor text that no line of lines contains
AnchorMissed(raw, lines) ==
    /\ raw.Anchor # ""
    /\ \A k \in 1..Len(lines) : ~Contains(lines[k], raw.Anchor)

\* C11 as stated: no call to PushPullRequestInlineComment is ever made for a
\* comment whose non-empty anchor is found in no line of the flattened diff.
C11_MissedAnchorNeverPosted ==
    [][calls' # calls => ~AnchorMissed(RawOf(fileIdx, postIdx), allLines)]_vars

\* C11: a comment whose non-empty anchor is found in no line of the flattened
\* diff keeps the position the AI reported: the first loop discards it only
\* when that position is out of range or on a deleted line, and otherwise
\* resolves it to the destination line of the reported position.
C11_MissedAnchorKeepsReportedPosition ==
    inPc \in {"resolve", "post"} =>
        \A i \in 1..Len(comments) :
            LET raw == RawOf(fileIdx, i)
            IN  AnchorMissed(raw, allLines) =>
                    IF /\ raw.Position \in 1..Len(fileLineMap)
                       /\ fileLineMap[raw.Position].ToLine > 0
                    THEN /\ comments[i].Path = parsed[fileIdx].path
                         /\ comments[i].Position = fileLineMap[raw.Position].ToLine
                    ELSE /\ comments[i].Path = ""
                         /\ comments[i].Position = 0

C11_Witness ==
    /\ Len(aiRaws) = 1
    /\ inPc = "post"
    /\ AnchorMissed(aiRaws[1], allLines)
    /\ Len(calls) = 1
    /\ calls[1].ok
    /\ calls[1].toLine = fileLineMap[aiRaws[1].Position].ToLine

\* raw has no anchor and reports a position outside 1..Len(lmap)
Unplaced(raw, lmap) ==
    raw.Anchor = "" /\ (raw.Position <= 0 \/ raw.Position > Len(lmap))

\* C12: a comment without an anchor whose reported position is <= 0 or
\* beyond the file's mapping is never handed to PushPullRequestInlineComment;
\* the second loop still goes through every comment of the file before the
\* next file begins, and the function returns only after the last file.
C12_UnplacedIsPassedOver ==
    [][/\ calls' # calls => ~Unplaced(RawOf(fileIdx, postIdx), fileLineMap)
       /\ (inPc = "post" /\ fileIdx' # fileIdx) => postIdx > aiLen
       /\ (inPc # "returned" /\ inPc' = "returned") => fileIdx > Len(parsed)]_vars

C12_Witness ==
    /\ inPc = "returned"
    /\ Len(parsed) = 2
    /\ Len(aiRaws) = 2
    /\ aiRaws[1].file = 1 /\ aiRaws[1].Anchor = "" /\ aiRaws[1].Position = 0
    /\ aiRaws[2].file = 1 /\ aiRaws[2].Anchor = "" /\ aiRaws[2].Position = 3
    /\ Len(calls) = 1
    /\ calls[1].toLine = 6

\* where the "+++ b/" line of the file with this path stands in the diff
DiffOffset(path) == Index(diff, "+++ b/" \o path \o "\n")

\* the key the first loop resolves raw to, "" when it discards it
CandidateKey(raw) ==
    LET built == BuildDiffSnippetAndLineMap(parsed[raw.file].hunks)
        r     == ResolveComment(raw, built.snippet, built.lineMap, parsed[raw.file].path).c
    IN  IF r.Path = "" \/ r.Position <= 0 THEN "" ELSE InlineKey(r.Path, r.Position)

\* a[i..] can be read off b[j..] from left to right
RECURSIVE Embeds(_, _, _, _)
Embeds(a, i, b, j) ==
    IF i > Len(a) THEN TRUE
    ELSE IF j > Len(b) THEN FALSE
    ELSE IF a[i] = b[j] THEN Embeds(a, i + 1, b, j + 1)
    ELSE Embeds(a, i, b, j + 1)

\* C13: the calls to PushPullRequestInlineComment, in the order they are
\* made, follow the files in the order of the diff and, going left to right,
\* pick their keys out of the comments in the order the AI returned them.
C13_PostsInArrivalOrder ==
    /\ \A i, j \in 1..Len(calls) :
           i < j => DiffOffset(calls[i].path) <= DiffOffset(calls[j].path)
    /\ \A k \in 1..Len(aiRaws) :
           k > 1 => \/ aiRaws[k - 1].file < aiRaws[k].file
                    \/ /\ aiRaws[k - 1].file = aiRaws[k].file
                       /\ aiRaws[k - 1].index < aiRaws[k].index
    /\ Embeds([i \in 1..Len(calls) |-> InlineKey(calls[i].path, calls[i].toLine)], 1,
              [k \in 1..Len(aiRaws) |-> CandidateKey(aiRaws[k])], 1)

C13_Witness ==
    /\ Len(calls) = 2
    /\ calls[1].path = "a" /\ calls[1].toLine = 6
    /\ calls[2].path = "b" /\ calls[2].toLine = 1

CommandPrefixes ==
    {"$", "#!/bin/", "sudo ", "rm ", "ls ", "cd ", "echo ", "cat ", "touch ", "mkdir ",
     "curl ", "wget ", "python ", "go run", "npm ", "yarn ", "git ", "exit", "shutdown",
     "reboot"}

BeginsWithCommand(b) ==
    \E p \in CommandPrefixes : Len(b) >= Len(p) /\ SubSeq(b, 1, Len(p)) = p

\* C14: an iteration of the second loop over a comment whose body is empty
\* or begins with one of the twenty command prefixes makes no call to
\* PushPullRequestInlineComment and leaves postedCount and the keys as they
\* were; LooksLikeCommand answers true for each of the twenty prefixes, alone
\* or followed by text.
C14_NoEmptyOrCommandBodyPosted ==
    [][/\ inPc = "entry" =>
              \A p \in CommandPrefixes : LooksLikeCommand(p) /\ LooksLikeCommand(p \o "x y")
       /\ (inPc = "post" /\ postIdx \in 1..Len(comments)) =>
              LET b == comments[postIdx].Body
              IN  (b = "" \/ BeginsWithCommand(b)) =>
                      /\ calls' = calls
                      /\ postedCount' = postedCount
                      /\ existingInlineComments' = existingInlineComments]_vars

C14_Witness ==
    /\ inPc = "post"
    /\ postIdx = 3
    /\ remaining = 1
    /\ comments[1].Body = "rm x" /\ comments[1].Position > 0
    /\ comments[2].Body = "ok"
    /\ postedCount = 1
    /\ Len(calls) = 1

\* C15: at every point of the call, and so when it returns, the map holds
\* the keys it held at entry and the path:toLine of the calls to
\* PushPullRequestInlineComment that succeeded, nothing else; postedCount
\* counts those calls, so what was skipped, discarded or refused by
\* Bitbucket adds no key and takes nothing of the cap.
C15_KeysGrowByAcceptedOnly ==
    /\ existingInlineComments =
           existingAtEntry
               \cup {calls[k].path \o ":" \o ToString(calls[k].toLine) : k \in OkCalls}
    /\ postedCount = Cardinality(OkCalls)

C15_Witness ==
    /\ inPc = "returned"
    /\ existingAtEntry = {"a:5"}
    /\ Len(calls) = 2
    /\ ~calls[1].ok
    /\ calls[2].ok
    /\ CallKey(calls[1]) \notin existingInlineComments
    /\ existingInlineComments = {"a:5", CallKey(calls[2])}

(***************************************************************************)
(* ParseDiff and BuildDiffSnippetAndLineMap on any diff text               *)
(* The start of ensureInlineReviewComments: the diff is parsed, then the   *)
(* hunks of each file are flattened, file after file.                      *)
(***************************************************************************)
MaxDiffLines == 4   \* lines of the diff text

DiffLinePool ==
    {"diff --git a/a b/a", "+++ b/a", "@@ -1 +1 @@", "@@ -x +y @@", "+x", " y"}

RECURSIVE LineLists(_)
LineLists(n) ==
    IF n = 0 THEN {<<>>}
    ELSE LineLists(n - 1)
             \cup {Append(ls, l) : ls \in {x \in LineLists(n - 1) : Len(x) = n - 1},
                                   l \in DiffLinePool}

\* strings.Join(ls, "\n")
RECURSIVE JoinLines(_)
JoinLines(ls) ==
    IF Len(ls) = 0 THEN ""
    ELSE IF Len(ls) = 1 THEN ls[1]
    ELSE ls[1] \o "\n" \o JoinLines(Tail(ls))

\* file "a" whose last line has no newline, then file "b" renamed to "c",
\* as git writes them
DiffRenamedFile ==
    "diff --git a/a b/a\nindex 1a2..3b4 100644\n--- a/a\n+++ b/a\n@@ -1 +1 @@\n-x\n+y\n"
    \o "\\ No newline at end of file\n"
    \o "diff --git a/b b/c\nsimilarity index 90%\nrename from b\nrename to c\n"
    \o "index 3b4..5c6 100644\n--- a/b\n+++ b/c\n@@ -1 +1 @@\n-z\n+w\n"

DiffTexts == {JoinLines(ls) : ls \in LineLists(MaxDiffLines)} \cup Diffs \cup {DiffRenamedFile}

InitParse ==
    /\ MapIdle
    /\ NearIdle
    /\ TaskIdle
    /\ ScanIdle
    /\ ReviewIdle
    /\ cfgMaxInline = 0
    /\ cfgMaxTotal = 0
    /\ totalCommentCount = 0
    /\ skipInline = FALSE
    /\ hasInlineAlready = FALSE
    /\ diff \in DiffTexts
    /\ existingInlineComments = {}
    /\ existingAtEntry = {}
    /\ InlineLocalsInit
    /\ aiRaws = <<>>
    /\ inPc = "parse"

\* "parsed := ar.Bitbucket.ParseDiff(diff)"
CallParseDiff ==
    /\ inPc = "parse"
    /\ parsed' = ParseDiff(diff)
    /\ inPc' = "flatten"
    /\ UNCHANGED <<inputVars, existingInlineComments, remaining, fileIdx, allLines,
                   fileLineMap, aiLen, comments, postIdx, postedCount, calls, diag,
                   aiCount, outsideInline>>

\* "allLines, lineMap := helper.BuildDiffSnippetAndLineMap(hunks)" for the
\* next file of parsed
CallBuildForFile ==
    /\ inPc = "flatten"
    /\ fileIdx < Len(parsed)
    /\ LET built == BuildDiffSnippetAndLineMap(parsed[fileIdx + 1].hunks)
       IN  /\ allLines' = built.snippet
           /\ fileLineMap' = built.lineMap
    /\ fileIdx' = fileIdx + 1
    /\ UNCHANGED <<inputVars, existingInlineComments, parsed, remaining, aiLen,
                   comments, postIdx, postedCount, calls, diag, aiCount, inPc,
                   outsideInline>>

NextParse ==
    \/ CallParseDiff
    \/ CallBuildForFile

SpecParse == InitParse /\ [][NextParse]_vars

\* the lines of the diff text
TextLines == SplitLines(diff)

IsFileMarker(l) == Len(l) >= 10 /\ SubSeq(l, 1, 10) = "diff --git"
IsHunkHeader(l) == Len(l) >= 2 /\ SubSeq(l, 1, 2) = "@@"

\* the indices in S, smallest first
RECURSIVE Ascending(_)
Ascending(S) ==
    IF S = {} THEN <<>>
    ELSE LET lo == CHOOSE x \in S : \A y \in S : x <= y
         IN  <<lo>> \o Ascending(S \ {lo})

\* the indices of the file-diff markers among the lines tl
FileMarkers(tl) == Ascending({i \in 1..Len(tl) : IsFileMarker(tl[i])})

\* where the part of the text of the f-th file-diff marker ends
FileEnd(tl, fm, f) == IF f < Len(fm) THEN fm[f + 1] - 1 ELSE Len(tl)

\* the '@@' lines of the f-th file-diff marker
HeadersOf(tl, fm, f) ==
    Ascending({i \in (fm[f] + 1)..FileEnd(tl, fm, f) : IsHunkHeader(tl[i])})

\* C16: ParseDiff returns one file for each "diff --git" line, in their
\* order; the hunks of a file are the '@@' lines between its marker and the
\* next, in their order; the lines of a hunk can be read off the text after
\* its header from top to bottom; without a "diff --git" line the result is
\* empty, whatever '@@' lines the text has.
C16_ParseDiffKeepsOrder ==
    (inPc = "flatten" /\ fileIdx = 0) =>
        LET tl == TextLines
            fm == FileMarkers(tl)
        IN  /\ Len(parsed) = Len(fm)
            /\ \A f \in 1..Len(parsed) :
                   LET hd == HeadersOf(tl, fm, f)
                   IN  /\ Len(parsed[f].hunks) = Len(hd)
                       /\ \A h \in 1..Len(parsed[f].hunks) :
                              /\ parsed[f].hunks[h].header = tl[hd[h]]
                              /\ Embeds(parsed[f].hunks[h].lines, 1, tl, hd[h] + 1)

C16_Witness ==
    /\ inPc = "flatten"
    /\ IsHunkHeader(TextLines[1])
    /\ Len(parsed) = 1
    /\ Len(parsed[1].hunks) = 1
    /\ parsed[1].hunks[1].lines = <<"+x">>

\* the starts written in the hunk headers of the diffs, 0 where the header
\* has none
WrittenStart(header) ==
    IF header = "@@ -1 +1 @@" THEN 1
    ELSE IF header = "@@ -5 +5 @@" THEN 5
    ELSE 0

HasUnparsableHeader(hs) == \E h \in 1..Len(hs) : hs[h].header = "@@ -x +y @@"

\* C17: a file with a hunk header whose starts do not parse is flattened
\* like any other: there is a mapping for every line of every hunk, the
\* lines under the unparsable header count from 0, and the lines of each
\* other hunk of the file count from the starts its own header gives.
C17_UnparsableHeaderCountsFromZero ==
    (inPc = "flatten" /\ fileIdx >= 1) =>
        LET hs == parsed[fileIdx].hunks
        IN  /\ Len(fileLineMap) = Len(allLines)
            /\ Len(allLines) = LinesBefore(hs, Len(hs) + 1)
            /\ \A h \in 1..Len(hs) :
                   LET ls == hs[h].lines
                       s0 == WrittenStart(hs[h].header)
                   IN  \A j \in 1..Len(ls) :
                       LET m   == fileLineMap[LinesBefore(hs, h) + j]
                           src == s0 + Cardinality({k \in 1..(j - 1) : ~IsAdded(ls[k])})
                           dst == s0 + Cardinality({k \in 1..(j - 1) : ~IsDeleted(ls[k])})
                       IN  /\ IsAdded(ls[j]) \/ m.FromLine = src
                           /\ IsDeleted(ls[j]) \/ m.ToLine = dst

C17_Witness ==
    /\ inPc = "flatten"
    /\ diff = DiffTwoFiles
    /\ fileIdx = 2
    /\ HasUnparsableHeader(parsed[fileIdx].hunks)
    /\ fileLineMap = <<[FromLine |-> -1, ToLine |-> 0], [FromLine |-> 0, ToLine |-> 1],
                       [FromLine |-> 1, ToLine |-> 1]>>

----------------------------------------------------------------------------
\* The round trip of a unified diff of one file through ParseDiff and
\* BuildDiffSnippetAndLineMap.

MaxHunkLines == 3

\* the lines a hunk is written from: a context line, an added line, a deleted
\* line, and the added line whose text is "++ b/q"
HunkLinePool == {" y", "+x", "-z", "+++ b/q"}

RECURSIVE HunkBodies(_)
HunkBodies(n) ==
    IF n = 1 THEN {<<l>> : l \in HunkLinePool}
    ELSE HunkBodies(n - 1)
             \cup {Append(b, l) : b \in {x \in HunkBodies(n - 1) : Len(x) = n - 1},
                                  l \in HunkLinePool}

\* the first lines of the hunk in the old and in the new file
HunkStarts == {<<1, 1>>, <<12, 14>>}

\* how many lines of the old and of the new file a hunk body covers
OldCount(body) == Cardinality({k \in 1..Len(body) : ~IsAdded(body[k])})
NewCount(body) == Cardinality({k \in 1..Len(body) : ~IsDeleted(body[k])})

HunkHeader(s, n, t, m) ==
    "@@ -" \o ToString(s) \o "," \o ToString(n) \o " +" \o ToString(t) \o ","
        \o ToString(m) \o " @@"

\* the edits of a file: a hunk at the given lines and, with more, a second
\* hunk of one context line five lines further down
FileEdits == [start : HunkStarts, body : HunkBodies(MaxHunkLines), more : BOOLEAN]

\* the unified diff of the file for the edits e
UnifiedDiff(e) ==
    LET s == e.start[1]
        t == e.start[2]
        n == OldCount(e.body)
        m == NewCount(e.body)
    IN  "diff --git a/a b/a\n--- a/a\n+++ b/a\n"
            \o HunkHeader(s, n, t, m) \o "\n" \o JoinLines(e.body)
            \o (IF e.more
                THEN "\n" \o HunkHeader(s + n + 5, 1, t + m + 5, 1) \o "\n y"
                ELSE "")

UnifiedDiffs == {UnifiedDiff(e) : e \in FileEdits}

InitRound ==
    /\ MapIdle
    /\ NearIdle
    /\ TaskIdle
    /\ ScanIdle
    /\ ReviewIdle
    /\ cfgMaxInline = 0
    /\ cfgMaxTotal = 0
    /\ totalCommentCount = 0
    /\ skipInline = FALSE
    /\ hasInlineAlready = FALSE
    /\ diff \in UnifiedDiffs
    /\ existingInlineComments = {}
    /\ existingAtEntry = existingInlineComments
    /\ InlineLocalsInit
    /\ aiRaws = <<>>
    /\ inPc = "parse"

NextRound ==
    \/ CallParseDiff
    \/ CallBuildForFile

SpecRound == InitRound /\ [][NextRound]_vars

\* the edits the diff text was written from
EditsOf(text) == CHOOSE e \in FileEdits : UnifiedDiff(e) = text

\* the lines of a hunk that starts at s in the old and at t in the new file,
\* each with its line number in the old and in the new file
NumberedLines(s, t, body) ==
    [j \in 1..Len(body) |->
        [text     |-> body[j],
         FromLine |-> s + Cardinality({k \in 1..(j - 1) : ~IsAdded(body[k])}),
         ToLine   |-> t + Cardinality({k \in 1..(j - 1) : ~IsDeleted(body[k])})]]

IsContextEntry(x) == SubSeq(x.text, 1, 1) = " "

\* the context lines of the edits e with their actual line numbers
ContextLinesOf(e) ==
    LET s == e.start[1]
        t == e.start[2]
        n == OldCount(e.body)
        m == NewCount(e.body)
    IN  SelectSeq(NumberedLines(s, t, e.body), IsContextEntry)
            \o (IF e.more
                THEN <<[text |-> " y", FromLine |-> s + n + 5, ToLine |-> t + m + 5]>>
                ELSE <<>>)

\* the flattened lines of the file with the mapping of each
MappedLines ==
    [k \in 1..Len(allLines) |->
        [text |-> allLines[k], FromLine |-> fileLineMap[k].FromLine,
         ToLine |-> fileLineMap[k].ToLine]]

\* C18: after ParseDiff and BuildDiffSnippetAndLineMap every context line of
\* every hunk of a unified diff of a file is mapped to its actual line
\* number in the old file and in the new file.
C18_RoundTripKeepsContextNumbers ==
    (inPc = "flatten" /\ fileIdx = 1) =>
        Embeds(ContextLinesOf(EditsOf(diff)), 1, MappedLines, 1)

\* the same for the diffs no hunk line of which begins with "+++ b/"
C18_RoundTripWithoutPathLikeLines ==
    (inPc = "flatten" /\ fileIdx = 1) =>
        LET e == EditsOf(diff)
        IN  (\A j \in 1..Len(e.body) : e.body[j] # "+++ b/q")
                => Embeds(ContextLinesOf(e), 1, MappedLines, 1)

----------------------------------------------------------------------------
(***************************************************************************)
(* reviewTask's loop over the open pull requests: the author filter, the   *)
(* pass over the comments, the summary and the inline review, run after    *)
(* run of the scheduled job                                                *)
(***************************************************************************)
MaxPRs == 2          \* open pull requests (FetchAllPullRequests)
MaxReviewRuns == 2   \* invocations of reviewTask

reviewUsername == "bot"                \* auto.Username
botDisplayName == "Bot"
reviewDisplayNames == <<"Ann">>        \* auto.DisplayNames
ignoreDisplayNames == <<"Senior">>     \* auto.IgnorePullRequestOf.DisplayNames
PRAuthors == {"Senior", "senior"}

GeneralComment(u, d, raw) ==
    [username |-> u, displayName |-> d, body |-> raw, isInline |-> FALSE,
     path |-> "", toLine |-> 0]

InlineComment(u, d, raw, path, to) ==
    [username |-> u, displayName |-> d, body |-> raw, isInline |-> TRUE,
     path |-> path, toLine |-> to]

\* the comment Bitbucket returns for a summary the bot posted:
\* "Summary by Nim\n\n" + formatSummaryBody(summaryText)
PostedSummary == GeneralComment(reviewUsername, botDisplayName,
                                "Summary by Nim\n\n" \o FormatSummaryBody("sum"))

\* the comment Bitbucket returns for an inline comment the bot posted
PostedInline == InlineComment(reviewUsername, botDisplayName, "ok", "a", 6)

\* the comments a pull request can have when the first run begins
CommentHistories ==
    {<<>>,
     <<GeneralComment("ann", "Ann", "please fix")>>,
     <<GeneralComment("ann", "Ann", "LGTM")>>,
     <<GeneralComment("eve", "Eve", "## Summary\nmine")>>,
     <<InlineComment("eve", "Eve", "## Summary", "a", 6)>>,
     <<InlineComment(reviewUsername, botDisplayName, "ok", "a", 5)>>,
     <<PostedSummary>>}

PullRequests == [author : PRAuthors, comments : CommentHistories]

\* a pull request by an author outside every list, without comments
PlainPR == [author |-> "Dev", comments |-> <<>>]

\* a pull request that has the bot's summary and an inline comment of the bot
ReviewedPR ==
    [author |-> "Dev",
     comments |-> <<PostedSummary,
                    InlineComment(reviewUsername, botDisplayName, "ok", "a", 5)>>]

\* the lists of open pull requests: at most two of them not reviewed yet, at
\* most one of them other than plain
PRLists ==
    {l \in [1..MaxPRs -> PullRequests \cup {PlainPR, ReviewedPR}] :
        /\ Cardinality({i \in 1..MaxPRs : l[i] # ReviewedPR}) <= 2
        /\ Cardinality({i \in 1..MaxPRs : l[i] \notin {PlainPR, ReviewedPR}}) <= 1}

\* "if displayNameConfig == pullRequest.Author.DisplayName"
IsIgnoredAuthorAnyCase(name) ==
    \E k \in 1..Len(ignoreDisplayNames) : ToLower(ignoreDisplayNames[k]) = ToLower(name)

IsIgnoredAuthor(name) ==
    \E k \in 1..Len(ignoreDisplayNames) : ignoreDisplayNames[k] = name

isConfiguredDisplayName(name, list) ==
    \E k \in 1..Len(list) : TrimSpace(list[k]) = TrimSpace(name)

lgtmSignals ==
    <<"lgtm", "why:", "how (step-by-step):", "suggested change (before/after):",
      "suggested change", "notes:">>

\* a comment of a configured display name that stops the inline review
SignalsLgtm(c) ==
    /\ isConfiguredDisplayName(c.displayName, reviewDisplayNames)
    /\ LET lcBody == ToLower(TrimSpace(c.body))
       IN  \E k \in 1..Len(lgtmSignals) : Contains(lcBody, lgtmSignals[k])

\* an inline comment of the bot account
IsInlineByUsername(c) == c.isInline /\ c.username = reviewUsername

HasSummaryInByUsername(cs) ==
    \E k \in 1..Len(cs) : IsSummaryComment(cs[k]) /\ cs[k].username = reviewUsername

\* hasSummary after the loop over the comments
HasSummaryIn(cs) == \E k \in 1..Len(cs) : IsSummaryComment(cs[k])

\* skipInlineByDisplayName after the loop over the comments
SkipInlineAfter(author, cs) ==
    IsIgnoredAuthor(author) \/ \E k \in 1..Len(cs) : SignalsLgtm(cs[k])

\* hasInlineReview after the loop over the comments
HasInlineReviewIn(cs) == \E k \in 1..Len(cs) : IsInlineByUsername(cs[k])

\* existingInlineComments after the loop over the comments
BotInlineKeysIn(cs) ==
    {InlineKey(cs[k].path, cs[k].toLine) : k \in {i \in 1..Len(cs) : IsInlineByUsername(cs[i])}}

\* a post Bitbucket accepted
IsPostEntry(e) == e.op \in {"summaryPost", "inlinePost"}

Logged(op) == Append(reviewLog, [run |-> reviewRun, pr |-> prIdx, op |-> op])

outsideReview == <<mapVars, nearVars, inlineVars, taskVars, scanVars>>
reviewLocals ==
    <<prFetched, skipInlineByDisplayName, summaryFound, hasInlineReview, botInlineKeys>>

\* the locals of the next iteration, as its first statements set them
ReviewLocalsReset ==
    /\ prFetched' = <<>>
    /\ skipInlineByDisplayName' = FALSE
    /\ summaryFound' = FALSE
    /\ hasInlineReview' = FALSE
    /\ botInlineKeys' = {}

InitReview ==
    /\ MapIdle
    /\ NearIdle
    /\ InlineIdle
    /\ TaskIdle
    /\ ScanIdle
    /\ allPR \in PRLists
    /\ reviewRun = 1
    /\ prIdx = 0
    /\ ReviewLocalsInit
    /\ reviewLog = <<>>
    /\ reviewPc = "start"

\* "allPR, err := ar.Bitbucket.FetchAllPullRequests(...)"
FetchAllPullRequests ==
    /\ reviewPc = "start"
    /\ \E ok \in BOOLEAN :
           IF ok /\ Len(allPR) > 0
           THEN prIdx' = 1 /\ reviewPc' = "pr"
           ELSE prIdx' = prIdx /\ reviewPc' = "done"
    /\ UNCHANGED <<allPR, reviewRun, reviewLocals, reviewLog, outsideReview>>

\* the author filter, FetchPullRequestComments and the loop over the comments
ScanComments ==
    /\ reviewPc = "pr"
    /\ reviewLog' = Logged("comments")
    /\ \E ok \in BOOLEAN :
           IF ok
           THEN LET cs == allPR[prIdx].comments
                IN  /\ prFetched' = cs
                    /\ skipInlineByDisplayName' = SkipInlineAfter(allPR[prIdx].author, cs)
                    /\ summaryFound' = HasSummaryIn(cs)
                    /\ hasInlineReview' = HasInlineReviewIn(cs)
                    /\ botInlineKeys' = BotInlineKeysIn(cs)
                    /\ reviewPc' = "diff"
           ELSE /\ reviewPc' = "done"
                /\ skipInlineByDisplayName' = IsIgnoredAuthor(allPR[prIdx].author)
                /\ UNCHANGED <<prFetched, summaryFound, hasInlineReview, botInlineKeys>>
    /\ UNCHANGED <<allPR, reviewRun, prIdx, outsideReview>>

\* "diff, err := ar.Bitbucket.FetchPullRequestDiff(...)"
FetchPullRequestDiff ==
    /\ reviewPc = "diff"
    /\ reviewLog' = Logged("diff")
    /\ \E ok \in BOOLEAN : reviewPc' = IF ok THEN "summary" ELSE "done"
    /\ UNCHANGED <<allPR, reviewRun, prIdx, reviewLocals, outsideReview>>

\* "if !hasSummary { _, _ = ar.PostSummaryComment(&auto, &pullRequest, diff) }"
SummaryStep ==
    /\ reviewPc = "summary"
    /\ IF summaryFound
       THEN UNCHANGED <<allPR, reviewLog>>
       ELSE \E outcome \in {"posted", "aiError", "emptyText", "pushError"} :
                IF outcome = "posted"
                THEN /\ reviewLog' = Append(Logged("summaryAI"),
                                            [run |-> reviewRun, pr |-> prIdx,
                                             op |-> "summaryPost"])
                     /\ allPR' = [allPR EXCEPT ![prIdx].comments = Append(@, PostedSummary)]
                ELSE /\ reviewLog' = Logged("summaryAI")
                     /\ UNCHANGED allPR
    /\ reviewPc' = "inline"
    /\ UNCHANGED <<reviewRun, prIdx, reviewLocals, outsideReview>>

\* "_, _ = ar.ensureInlineReviewComments(..., existingInlineComments,
\* skipInlineByDisplayName, hasInlineReview)" and the end of the iteration
InlineStep ==
    /\ reviewPc = "inline"
    /\ IF skipInlineByDisplayName \/ hasInlineReview
       THEN UNCHANGED <<allPR, reviewLog>>
       ELSE \E posts \in BOOLEAN :
                IF posts /\ InlineKey(PostedInline.path, PostedInline.toLine) \notin botInlineKeys
                THEN /\ reviewLog' = Append(Logged("inlineAI"),
                                            [run |-> reviewRun, pr |-> prIdx,
                                             op |-> "inlinePost"])
                     /\ allPR' = [allPR EXCEPT ![prIdx].comments = Append(@, PostedInline)]
                ELSE /\ reviewLog' = Logged("inlineAI")
                     /\ UNCHANGED allPR
    /\ IF prIdx < Len(allPR)
       THEN prIdx' = prIdx + 1 /\ reviewPc' = "pr"
       ELSE prIdx' = prIdx /\ reviewPc' = "done"
    /\ ReviewLocalsReset
    /\ UNCHANGED <<reviewRun, outsideReview>>

\* the scheduler starts reviewTask again
NextReviewRun ==
    /\ reviewPc = "done"
    /\ reviewRun < MaxReviewRuns
    /\ reviewRun' = reviewRun + 1
    /\ prIdx' = 0
    /\ ReviewLocalsReset
    /\ reviewPc' = "start"
    /\ reviewLog' = SelectSeq(reviewLog, IsPostEntry)
    /\ UNCHANGED <<allPR, outsideReview>>

NextReview ==
    \/ FetchAllPullRequests
    \/ ScanComments
    \/ FetchPullRequestDiff
    \/ SummaryStep
    \/ InlineStep
    \/ NextReviewRun

SpecReview == InitReview /\ [][NextReview]_vars

\* what a step adds to the log
AddedEntries == {reviewLog'[i] : i \in (Len(reviewLog) + 1)..Len(reviewLog')}
AddedOps == {e.op : e \in AddedEntries}

postOps == {"summaryPost", "inlinePost"}
reviewOps == {"diff", "summaryAI", "inlineAI"} \cup postOps

\* a comment with content by the configured username or by one of the
\* display names
IsReviewerComment(c) ==
    /\ c.body # ""
    /\ \/ c.username = reviewUsername
       \/ \E k \in 1..Len(reviewDisplayNames) : reviewDisplayNames[k] = c.displayName

\* the runs in which something was posted on pull request p
PostingRuns(log, p, ops) ==
    {log[i].run : i \in {j \in 1..Len(log) : log[j].pr = p /\ log[j].op \in ops}}

summaryHeading == "## summary"
summaryMarkers ==
    {"summary by ", "- **new features**", "- **bug fixes**", "- **documentation**",
     "- **refactor**", "- **performance**", "- **tests**", "- **chores**"}

\* the body, trimmed and in lower case, starts with the heading or has a marker
ReadsLikeSummary(raw) ==
    LET lc == ToLower(TrimSpace(raw))
    IN  \/ /\ Len(lc) >= Len(summaryHeading)
           /\ SubSeq(lc, 1, Len(summaryHeading)) = summaryHeading
        \/ \E mk \in summaryMarkers : Index(lc, mk) >= 0

\* the attempts to generate a summary for pull request p in the current run
SummaryAttempts(p) ==
    {i \in 1..Len(reviewLog) :
        reviewLog[i] = [run |-> reviewRun, pr |-> p, op |-> "summaryAI"]}

----------------------------------------------------------------------------
\* The bodies PostSummaryComment and ensureInlineReviewComments hand to
\* Bitbucket.

\* bodies of AI comments, with and without the bot marker in them
MarkerBodies ==
    {"ok", "Why: x", reviewBotMarker, "ok " \o reviewBotMarker,
     "ok\n\n" \o reviewBotMarker \o "\n\nmore"}

LastReviewedHashes == {"", "abc123", "fed789"}

InitMarker ==
    /\ MapIdle
    /\ NearIdle
    /\ InlineIdle
    /\ TaskIdle
    /\ ReviewIdle
    /\ prEvents = <<>>
    /\ prComments = <<>>
    /\ latestCommitHash \in LatestHashes
    /\ scanIdx = 0
    /\ hasSummary = FALSE
    /\ scanKeys = {}
    /\ lastReviewedCommitHash \in LastReviewedHashes
    /\ pauseRequested = FALSE
    /\ summaryCalls = <<>>
    /\ inlineCalled = FALSE
    /\ prPc = "idle"

\* PostSummaryComment from "head :=" to PushPullRequestComment
PushSummaryBody ==
    /\ summaryCalls = <<>>
    /\ \E summaryText \in SummaryTexts \ {" "}, ok \in BOOLEAN :
           summaryCalls' = <<[body |-> SummaryBody(summaryText, lastReviewedCommitHash,
                                                   latestCommitHash),
                              ok |-> ok]>>
    /\ UNCHANGED <<prEvents, prComments, latestCommitHash, scanIdx, hasSummary, scanKeys,
                   lastReviewedCommitHash, pauseRequested, inlineCalled, prPc,
                   mapVars, nearVars, inlineVars, taskVars, reviewVars>>

\* ensureInlineReviewComments from "formattedBody :=" to
\* PushPullRequestInlineComment, for a comment the AI returned with body b
PushInlineBody ==
    /\ calls = <<>>
    /\ \E b \in MarkerBodies, ok \in BOOLEAN :
           /\ aiRaws' = <<[file |-> 1, index |-> 1, Body |-> b, Position |-> 1,
                           Anchor |-> ""]>>
           /\ calls' = <<[path |-> "a", fromLine |-> FromLineForAPI(-1), toLine |-> 5,
                          body |-> PostedBody(b), ok |-> ok]>>
    /\ UNCHANGED <<inputVars, existingInlineComments, parsed, remaining, fileIdx,
                   allLines, fileLineMap, aiLen, comments, postIdx, postedCount, diag,
                   aiCount, inPc, mapVars, nearVars, taskVars, scanVars, reviewVars>>

NextMarker ==
    \/ PushSummaryBody
    \/ PushInlineBody

SpecMarker == InitMarker /\ [][NextMarker]_vars

\* where sub occurs in s
Occurrences(s, sub) ==
    {i \in 0..(Len(s) - Len(sub)) : SubSeq(s, i + 1, i + Len(sub)) = sub}

EndsWith(s, suffix) ==
    Len(s) >= Len(suffix) /\ SubSeq(s, Len(s) - Len(suffix) + 1, Len(s)) = suffix

botMarkerText == "<!-- auto-review-bot -->"

\* C22: every body handed to PushPullRequestInlineComment has the bot
\* marker: a formatted body that has it already is posted as it is, any other
\* gets it appended once; every body handed to PushPullRequestComment ends
\* with the bot marker, followed by the base-commit marker of
\* latestCommitHash exactly when latestCommitHash is not empty.
C22_BodiesCarryMarkers ==
    /\ \A i \in 1..Len(calls) :
           LET formatted == FormatReviewBody(aiRaws[i].Body)
               posted    == calls[i].body
           IN  /\ Occurrences(posted, botMarkerText) # {}
               /\ IF Occurrences(formatted, botMarkerText) # {}
                  THEN posted = formatted
                  ELSE /\ posted = formatted \o "\n\n" \o botMarkerText
                       /\ Cardinality(Occurrences(posted, botMarkerText)) = 1
    /\ \A i \in 1..Len(summaryCalls) :
           LET posted == summaryCalls[i].body
               based  == botMarkerText \o "\n\n<!-- auto-review-base:"
                             \o latestCommitHash \o " -->"
           IN  IF latestCommitHash # ""
               THEN EndsWith(posted, "\n\n" \o based)
               ELSE EndsWith(posted, "\n\n" \o botMarkerText)
                        /\ Occurrences(posted, "<!-- auto-review-base:") = {}

\* an AI body that had the marker was posted with one marker, and a summary
\* was posted with the base-commit marker
C22_Witness ==
    /\ Len(calls) = 1
    /\ aiRaws[1].Body = "ok " \o botMarkerText
    /\ Cardinality(Occurrences(calls[1].body, botMarkerText)) = 1
    /\ Len(summaryCalls) = 1
    /\ latestCommitHash = "fed789"
    /\ EndsWith(summaryCalls[1].body, "<!-- auto-review-base:fed789 -->")

\* the step in which the AI call for the file of the loop returns an error
AIErrorStep ==
    /\ inPc = "file"
    /\ fileIdx <= Len(parsed)
    /\ postedCount < remaining
    /\ diag' = "aiError"

C24_FailureKeepsLaterPullRequests ==
    [][(reviewPc \in {"pr", "diff", "summary", "inline"} /\ reviewPc' = "done")
           => prIdx = Len(allPR)]_vars


\* C25: a call with skipInline or hasInlineAlready set does nothing but
\* return 0: the diff is never parsed, the AI is never asked, no comment is
\* posted and the set of existing keys stays what it was at entry.
C25_SkipReturnsUntouched ==
    (skipInline \/ hasInlineAlready) =>
        /\ inPc \in {"entry", "returned"}
        /\ parsed = <<>>
        /\ aiCount = 0
        /\ comments = <<>>
        /\ calls = <<>>
        /\ postedCount = 0
        /\ existingInlineComments = existingAtEntry

C25_Witness ==
    /\ inPc = "returned"
    /\ hasInlineAlready
    /\ ~skipInline
    /\ existingInlineComments # {}
    /\ Len(ParseDiff(diff)) > 0
    /\ parsed = <<>>


\* the places of an invocation between "ar.isRunning = true" and the end of
\* the deferred function
runningPcs == {"unlock", "fetch", "review", "deferLock", "deferReset", "deferUnlock"}

\* C26: isRunning is false when an invocation that has set it ends,
\* whichever return it takes; isRunning is true only while an invocation is
\* between setting it and its end; an invocation skips only if another one
\* is there at the moment it looks; and isRunning, once set, is reset.
C26_IsRunningResetOnEveryExit ==
    /\ [][\A j \in Jobs :
            (taskPc[j] \in runningPcs /\ taskPc'[j] = "wait") => ~isRunning']_vars
    /\ [](isRunning => \E j \in Jobs : taskPc[j] \in runningPcs)
    /\ [][\A j \in Jobs :
            (taskPc[j] = "check" /\ taskPc'[j] = "skip")
                => \E k \in Jobs \ {j} : taskPc[k] \in runningPcs]_vars
    /\ isRunning ~> ~isRunning

\* an invocation has ended right after FetchAllPullRequests (by the error
\* return, or with no pull request to go through), and another invocation
\* has found isRunning false and set it anew
C26_Witness ==
    \E j1, j2 \in Jobs :
        /\ j1 # j2
        /\ taskPc[j1] = "wait"
        /\ taskOutcome[j1] = "ran"
        /\ taskOps[j1] = 1
        /\ taskPc[j2] = "fetch"
        /\ isRunning


\* "for i, review := range cfg.AutoReviewPRs": every job reviews the
\* repository of its own entry, and the entries name different repositories
RepoOf == [j \in Jobs |-> j]

\* C27: an invocation finds isRunning true and skips only while a review of
\* its own repository is in progress; a review of another repository never
\* makes it skip.
C27_SkipOnlyForSameRepository ==
    [][\A j \in Jobs :
          (taskPc[j] = "check" /\ taskPc'[j] = "skip")
              => \E k \in Jobs \ {j} :
                    /\ RepoOf[k] = RepoOf[j]
                    /\ taskPc[k] \in runningPcs]_vars


\* the summary posts accepted for pull request p in a run before this one
EarlierSummaryPosts(p) ==
    {i \in 1..Len(reviewLog) :
        /\ reviewLog[i].op = "summaryPost"
        /\ reviewLog[i].pr = p
        /\ reviewLog[i].run < reviewRun}

\* C28: whatever the summary text and the two commit hashes, the body
\* PostSummaryComment builds is taken for a summary when it comes back as a
\* comment; and a run that comes after an accepted summary post on a pull
\* request finds hasSummary true for it and asks for no further summary.
C28_PostedSummaryIsFound ==
    /\ reviewPc = "start" /\ reviewRun = 1
           => \A t \in {x \in SummaryTexts : TrimSpace(x) # ""},
                 l \in LastReviewedHashes, h \in LatestHashes :
                   IsSummaryComment(GeneralComment(reviewUsername, botDisplayName,
                                                   SummaryBody(t, l, h)))
    /\ (reviewPc \in {"diff", "summary", "inline"} /\ EarlierSummaryPosts(prIdx) # {})
           => summaryFound
    /\ \A p \in 1..Len(allPR) :
           EarlierSummaryPosts(p) # {} => SummaryAttempts(p) = {}

\* the second run has fetched the summary the first run posted on a pull
\* request that had no comment, and has gone past the summary step
C28_Witness ==
    /\ reviewRun = 2
    /\ reviewPc = "inline"
    /\ EarlierSummaryPosts(prIdx) # {}
    /\ prFetched = <<PostedSummary>>
    /\ summaryFound
    /\ SummaryAttempts(prIdx) = {}


\* a line of a hunk as a unified diff has them: context, added or deleted
IsContentLine(l) == Len(l) >= 1 /\ SubSeq(l, 1, 1) \in {" ", "+", "-"}

\* the content lines the text has between the first '@@' line of the f-th
\* file and the "diff --git" line of the next file
OwnContentLines(tl, fm, f) ==
    LET hd == HeadersOf(tl, fm, f)
    IN  IF Len(hd) = 0 THEN <<>>
        ELSE SelectSeq(SubSeq(tl, hd[1] + 1, FileEnd(tl, fm, f)), IsContentLine)

\* C29: the flattened snippet of a file can be read off the content lines
\* of that file's own hunks, and it has one line mapping for each of them:
\* no header line of the following file, no "\ No newline at end of file"
\* marker and no empty last line is in it or has a mapping.
C29_SnippetHoldsOwnContentLines ==
    (inPc = "flatten" /\ fileIdx >= 1) =>
        LET tl == TextLines
            fm == FileMarkers(tl)
        IN  /\ Embeds(allLines, 1, OwnContentLines(tl, fm, fileIdx), 1)
            /\ Len(fileLineMap) <= Len(OwnContentLines(tl, fm, fileIdx))


\* the positions that have a line mapping
InRange(pos) == pos \in 1..Len(diffLines)

\* C30: a reported position without a line mapping has one after the anchor
\* step only if the normalized anchor is a non-empty text some line of the
\* flattened diff contains; an anchor that normalizes to the empty string
\* leaves a position without a mapping without one, and a position with a
\* mapping where it is.
C30_EmptyAnchorCorrectsNothing ==
    nearPc = "done" =>
        /\ (~InRange(reported) /\ InRange(nearPos))
               => /\ NormAnchor(anchor) # ""
                  /\ \E k \in 1..Len(diffLines) :
                         Contains(Strip(diffLines[k]), NormAnchor(anchor))
        /\ NormAnchor(anchor) = ""
               => IF InRange(reported) THEN nearPos = reported ELSE ~InRange(nearPos)

============================================================================
